---- MODULE Spec2Model ----
(***************************************************************************)
(* Model of the HubSpot CRM MCP server (src/api/mcp.ts): the JSON-RPC      *)
(* handler, the tool dispatcher handleTool, the remote helper hubspot, and *)
(* the pure shaping functions filterResults, truncateProperties,           *)
(* compactResult and compactResults.                                       *)
(*                                                                         *)
(* JavaScript values are tagged records [t |-> <kind>, v |-> <payload>];   *)
(* a string's payload is a sequence of one-character strings, an object's  *)
(* payload is a function from its keys to values.  A missing key reads as  *)
(* Undefined, as in JavaScript.                                            *)
(***************************************************************************)
EXTENDS Integers, Sequences, FiniteSets, TLC

\* ------------------------------------------------------------- bounds
\* Longest string a property value or an exclusion term has in the model.
MaxStrLen == 3
\* Longest page (list of CRM objects) the remote system returns in the model.
MaxPage == 2

\* ---------------------------------------------------------- constants
DEFAULT_MAX_RESULTS == 20
DEFAULT_MAX_PROPERTY_LENGTH == 500

\* ------------------------------------------------------ JavaScript values
Undefined == [t |-> "undefined"]
Null == [t |-> "null"]
NaN == [t |-> "NaN"]
Infinity == [t |-> "Infinity"]
Str(s) == [t |-> "string", v |-> s]
Num(n) == [t |-> "number", v |-> n]
Bool(b) == [t |-> "boolean", v |-> b]
Arr(a) == [t |-> "array", v |-> a]
Obj(m) == [t |-> "object", v |-> m]
\* A non-empty string kept whole (an enum member, a type name).
Atom(a) == [t |-> "atom", v |-> a]

\* The empty property bag / argument bag {}.
EmptyMap == [k \in {} |-> Undefined]

\* o.k for a bag o (a function from keys to values): Undefined when absent.
Get(o, k) == IF k \in DOMAIN o THEN o[k] ELSE Undefined

\* x.k for a JavaScript value x that is an object.
Field(x, k) == IF x.t = "object" THEN Get(x.v, k) ELSE Undefined

\* typeof x
TypeOf(x) ==
  CASE x.t \in {"number", "NaN", "Infinity"} -> "number"
    [] x.t \in {"object", "array", "null"} -> "object"
    [] x.t = "atom" -> "string"
    [] OTHER -> x.t

\* ToBoolean(x): the truthiness an `if (x)`, `x || y` or Boolean(x) takes.
Truthy(x) ==
  CASE x.t \in {"undefined", "null", "NaN"} -> FALSE
    [] x.t = "boolean" -> x.v
    [] x.t = "number" -> x.v # 0
    [] x.t = "string" -> Len(x.v) > 0
    [] OTHER -> TRUE

\* x || y
OrElse(x, y) == IF Truthy(x) THEN x ELSE y

\* Array.isArray(x)
IsArray(x) == x.t = "array"

\* The decimal digits of a natural number, as a character sequence.
RECURSIVE Digits(_)
Digits(n) ==
  LET d == <<"0", "1", "2", "3", "4", "5", "6", "7", "8", "9">>
  IN IF n < 10 THEN <<d[n + 1]>> ELSE Digits(n \div 10) \o <<d[(n % 10) + 1]>>

\* String(x), as a character sequence.
StringOf(x) ==
  CASE x.t = "string" -> x.v
    [] x.t = "number" -> IF x.v < 0 THEN <<"-">> \o Digits(-x.v) ELSE Digits(x.v)
    [] x.t = "boolean" -> IF x.v THEN <<"t", "r", "u", "e">>
                          ELSE <<"f", "a", "l", "s", "e">>
    [] x.t = "null" -> <<"n", "u", "l", "l">>
    [] x.t = "undefined" -> <<"u", "n", "d", "e", "f", "i", "n", "e", "d">>
    [] x.t = "NaN" -> <<"N", "a", "N">>
    [] x.t = "Infinity" -> <<"I", "n", "f", "i", "n", "i", "t", "y">>
    [] OTHER -> <<"[", "o", "b", "j", "e", "c", "t", "]">>

\* The characters property values and exclusion terms are built from.
Chars == {"a", "B"}

\* c.toLowerCase() for one character.
LowerChar(c) == IF c = "B" THEN "b" ELSE c

\* s.toLowerCase()
toLowerCase(s) == [i \in 1..Len(s) |-> LowerChar(s[i])]

\* s.includes(e): e occurs in s as a contiguous substring.
includes(s, e) ==
  \E i \in 0..(Len(s) - Len(e)) : SubSeq(s, i + 1, i + Len(e)) = e

\* value.length > maxLength, for maxLength a number value.
LengthExceeds(len, maxLength) ==
  CASE maxLength.t = "number" -> len > maxLength.v
    [] OTHER -> FALSE

\* value.substring(0, maxLength): the end index is clamped into [0, length].
substring0(s, maxLength) ==
  LET n == CASE maxLength.t = "number" ->
                  IF maxLength.v < 0 THEN 0
                  ELSE IF maxLength.v > Len(s) THEN Len(s) ELSE maxLength.v
             [] maxLength.t = "Infinity" -> Len(s)
             [] OTHER -> 0
  IN SubSeq(s, 1, n)

\* The literal '...[truncated]'.
TruncationMarker ==
  <<".", ".", ".", "[", "t", "r", "u", "n", "c", "a", "t", "e", "d", "]">>

\* ------------------------------------------------------- pure functions

\* A filter without the fast path that keeps only the items carrying
\* properties.
filterResultsKeepingPropertied(results, options) ==
  LET keep(item) == Truthy(Get(item, "properties"))
      filtered == SelectSeq(results, keep)
  IN [results |-> filtered, excluded |-> Len(results) - Len(filtered)]

\* The filter matching without lower-casing either side.
filterResultsCaseSensitive(results, options) ==
  LET excludeCompanies ==
        IF "excludeCompanies" \in DOMAIN options THEN options.excludeCompanies ELSE <<>>
      excludeJobTitles ==
        IF "excludeJobTitles" \in DOMAIN options THEN options.excludeJobTitles ELSE <<>>
      keep(item) ==
        LET props == Get(item, "properties")
            company == StringOf(OrElse(Field(props, "company"), Str(<<>>)))
            jobtitle == StringOf(OrElse(Field(props, "jobtitle"), Str(<<>>)))
        IN ~Truthy(props)
           \/ /\ ~(Len(company) > 0
                     /\ \E i \in 1..Len(excludeCompanies) :
                          includes(company, excludeCompanies[i]))
              /\ ~(Len(jobtitle) > 0
                     /\ \E i \in 1..Len(excludeJobTitles) :
                          includes(jobtitle, excludeJobTitles[i]))
      filtered == SelectSeq(results, keep)
  IN [results |-> filtered, excluded |-> Len(results) - Len(filtered)]

\* filterResults(results, options): results is a sequence of items, options
\* a bag whose excludeCompanies / excludeJobTitles, when present, are
\* sequences of character sequences.
filterResults(results, options) ==
  LET excludeCompanies ==
        IF "excludeCompanies" \in DOMAIN options THEN options.excludeCompanies ELSE <<>>
      excludeJobTitles ==
        IF "excludeJobTitles" \in DOMAIN options THEN options.excludeJobTitles ELSE <<>>
  IN IF Len(excludeCompanies) = 0 /\ Len(excludeJobTitles) = 0
     THEN [results |-> results, excluded |-> 0]
     ELSE
       LET excludeCompaniesLower ==
             [i \in 1..Len(excludeCompanies) |-> toLowerCase(excludeCompanies[i])]
           excludeJobTitlesLower ==
             [i \in 1..Len(excludeJobTitles) |-> toLowerCase(excludeJobTitles[i])]
           keep(item) ==
             LET props == Get(item, "properties")
             IN IF ~Truthy(props) THEN TRUE
                ELSE
                  LET company ==
                        toLowerCase(StringOf(OrElse(Field(props, "company"), Str(<<>>))))
                      jobtitle ==
                        toLowerCase(StringOf(OrElse(Field(props, "jobtitle"), Str(<<>>))))
                  IN IF Len(company) > 0
                        /\ \E i \in 1..Len(excludeCompaniesLower) :
                             includes(company, excludeCompaniesLower[i])
                     THEN FALSE
                     ELSE IF Len(jobtitle) > 0
                             /\ \E i \in 1..Len(excludeJobTitlesLower) :
                                  includes(jobtitle, excludeJobTitlesLower[i])
                          THEN FALSE
                          ELSE TRUE
           filtered == SelectSeq(results, keep)
       IN [results |-> filtered, excluded |-> Len(results) - Len(filtered)]

\* Truncation that also cuts a string of exactly maxLength characters.
truncatePropertiesAtLength(obj, maxLength) ==
  [key \in DOMAIN obj |->
     IF TypeOf(obj[key]) = "string"
        /\ (LengthExceeds(Len(obj[key].v), maxLength) \/ Num(Len(obj[key].v)) = maxLength)
     THEN Str(substring0(obj[key].v, maxLength) \o TruncationMarker)
     ELSE obj[key]]

\* Truncation that cuts without appending the marker.
truncatePropertiesUnmarked(obj, maxLength) ==
  [key \in DOMAIN obj |->
     IF TypeOf(obj[key]) = "string" /\ LengthExceeds(Len(obj[key].v), maxLength)
     THEN Str(substring0(obj[key].v, maxLength))
     ELSE obj[key]]

\* truncateProperties(obj, maxLength): obj is a property bag.
truncateProperties(obj, maxLength) ==
  [key \in DOMAIN obj |->
     IF TypeOf(obj[key]) = "string" /\ LengthExceeds(Len(obj[key].v), maxLength)
     THEN Str(substring0(obj[key].v, maxLength) \o TruncationMarker)
     ELSE obj[key]]

\* Metadata copied whatever includeMetadata is.
metadataKeysAlways(item, includeMetadata) ==
  {k \in {"createdAt", "updatedAt", "url"} : Truthy(Get(item, k))}
  \cup {k \in {"archived"} : Get(item, k) # Undefined}

\* The metadata keys compactResult copies: createdAt, updatedAt and url when
\* truthy, archived when not undefined, and none without includeMetadata.
metadataKeys(item, includeMetadata) ==
  IF Truthy(includeMetadata)
  THEN {k \in {"createdAt", "updatedAt", "url"} : Truthy(Get(item, k))}
       \cup {k \in {"archived"} : Get(item, k) # Undefined}
  ELSE {}

\* compactResult(item, options): item is a bag (a CRM object), options a bag
\* with optional maxPropertyLength (a number value) and includeMetadata.
compactResult(item, options) ==
  LET maxPropertyLength ==
        IF Get(options, "maxPropertyLength") = Undefined
        THEN Num(DEFAULT_MAX_PROPERTY_LENGTH)
        ELSE options.maxPropertyLength
      includeMetadata ==
        IF Get(options, "includeMetadata") = Undefined
        THEN Bool(FALSE)
        ELSE options.includeMetadata
      props == Get(item, "properties")
      withId == [k \in {"id"} |-> Get(item, "id")]
      withProps ==
        IF Truthy(props) /\ TypeOf(props) = "object"
        THEN [k \in {"properties"} |->
                Obj(truncateProperties(props.v, maxPropertyLength))]
        ELSE EmptyMap
      metaKeys == metadataKeys(item, includeMetadata)
  IN [k \in {"id"} \cup DOMAIN withProps \cup metaKeys |->
        IF k = "id" THEN withId[k]
        ELSE IF k = "properties" THEN withProps[k]
        ELSE item[k]]

\* The page compacted with its results in reverse order.
compactResultsReversed(data, options) ==
  [total |-> Get(data, "total"),
   results |-> [i \in 1..Len(data.results) |->
                  compactResult(data.results[Len(data.results) + 1 - i], options)],
   paging |-> Get(data, "paging")]

\* compactResults(data, options): data is a bag with results (a sequence of
\* items) and optional total and paging.
compactResults(data, options) ==
  [total |-> Get(data, "total"),
   results |-> [i \in 1..Len(data.results) |-> compactResult(data.results[i], options)],
   paging |-> Get(data, "paging")]

\* ------------------------------------------------------------ protocol
MCP_VERSION == "2024-11-05"
SERVER_NAME == "hubspot-crm-mcp"
SERVER_VERSION == "1.3.0"

\* The catalog with an entry for a tool the switch of handleTool has no
\* case for.
TOOLS_withUnhandledEntry ==
  <<"hubspot_list_contacts", "hubspot_get_contact", "hubspot_create_contact",
    "hubspot_update_contact", "hubspot_delete_contact", "hubspot_search_contacts",
    "hubspot_list_companies", "hubspot_get_company", "hubspot_create_company",
    "hubspot_update_company", "hubspot_delete_company", "hubspot_search_companies",
    "hubspot_contact_properties", "hubspot_company_properties",
    "hubspot_list_owners", "hubspot_get_owner",
    "hubspot_get_engagements", "hubspot_log_email", "hubspot_log_call",
    "hubspot_create_note",
    "hubspot_create_task", "hubspot_search_tasks", "hubspot_update_task",
    "hubspot_get_deal", "hubspot_create_deal", "hubspot_update_deal",
    "hubspot_search_deals", "hubspot_delete_deal", "hubspot_deal_properties",
    "hubspot_list_pipelines">>

\* The static catalog: the name of every entry of TOOLS, in source order.
TOOLS ==
  <<"hubspot_list_contacts", "hubspot_get_contact", "hubspot_create_contact",
    "hubspot_update_contact", "hubspot_delete_contact", "hubspot_search_contacts",
    "hubspot_list_companies", "hubspot_get_company", "hubspot_create_company",
    "hubspot_update_company", "hubspot_delete_company", "hubspot_search_companies",
    "hubspot_contact_properties", "hubspot_company_properties",
    "hubspot_list_owners", "hubspot_get_owner",
    "hubspot_get_engagements", "hubspot_log_email", "hubspot_create_note",
    "hubspot_create_task", "hubspot_search_tasks", "hubspot_update_task",
    "hubspot_get_deal", "hubspot_create_deal", "hubspot_update_deal",
    "hubspot_search_deals", "hubspot_delete_deal", "hubspot_deal_properties",
    "hubspot_list_pipelines">>

\* The names in the catalog.
ToolNames == {TOOLS[i] : i \in 1..Len(TOOLS)}

\* An error message: a template literal and the values interpolated into it.
Msg(template, parts) == [template |-> template, parts |-> parts]

\* The JSON text res.json sends: a key whose value is undefined is dropped.
RpcResult(result, id) ==
  IF id = Undefined
  THEN [jsonrpc |-> "2.0", result |-> result]
  ELSE [jsonrpc |-> "2.0", result |-> result, id |-> id]

RpcError(code, message, id) ==
  IF id = Undefined
  THEN [jsonrpc |-> "2.0", error |-> [code |-> code, message |-> message]]
  ELSE [jsonrpc |-> "2.0", error |-> [code |-> code, message |-> message], id |-> id]

\* JSON.stringify's view of a value: undefined-valued keys are dropped,
\* undefined array elements and non-finite numbers become null.
RECURSIVE JsonValue(_)
JsonValue(x) ==
  CASE x.t = "object" ->
         Obj([k \in {kk \in DOMAIN x.v : x.v[kk].t # "undefined"} |-> JsonValue(x.v[k])])
    [] x.t = "array" ->
         Arr([i \in 1..Len(x.v) |->
                IF x.v[i].t = "undefined" THEN Null ELSE JsonValue(x.v[i])])
    [] x.t \in {"NaN", "Infinity"} -> Null
    [] OTHER -> x

\* ------------------------------------------------------------ numbers
\* Number(x)
ToNumber(x) ==
  CASE x.t \in {"number", "NaN", "Infinity"} -> x
    [] x.t = "null" -> Num(0)
    [] x.t = "boolean" -> Num(IF x.v THEN 1 ELSE 0)
    [] x.t = "string" ->
         LET d == [c \in {"0", "1", "2", "3", "4", "5", "6", "7", "8", "9"} |->
                     CASE c = "0" -> 0 [] c = "1" -> 1 [] c = "2" -> 2 [] c = "3" -> 3
                       [] c = "4" -> 4 [] c = "5" -> 5 [] c = "6" -> 6 [] c = "7" -> 7
                       [] c = "8" -> 8 [] OTHER -> 9]
             RECURSIVE val(_, _)
             val(s, acc) == IF s = <<>> THEN acc ELSE val(Tail(s), 10 * acc + d[Head(s)])
         IN IF \A i \in 1..Len(x.v) : x.v[i] \in DOMAIN d
            THEN Num(val(x.v, 0))
            ELSE NaN
    [] OTHER -> NaN

\* Math.min(a, b) for number values.
MathMin(a, b) ==
  CASE a.t = "NaN" \/ b.t = "NaN" -> NaN
    [] a.t = "Infinity" -> b
    [] b.t = "Infinity" -> a
    [] OTHER -> IF a.v <= b.v THEN a ELSE b

\* Math.min(Number(args.limit) || dflt, max)
LimitOf(args, dflt, max) ==
  MathMin(OrElse(ToNumber(Get(args, "limit")), Num(dflt)), Num(max))

\* The length limit without the opt-out: a given 0 is passed on as 0.
MaxLenOfPassingZero(args) ==
  IF Get(args, "maxPropertyLength") = Undefined
  THEN Num(DEFAULT_MAX_PROPERTY_LENGTH)
  ELSE ToNumber(Get(args, "maxPropertyLength"))

\* args.maxPropertyLength === 0 ? Infinity
\*   : (Number(args.maxPropertyLength) || DEFAULT_MAX_PROPERTY_LENGTH)
MaxLenOf(args) ==
  IF Get(args, "maxPropertyLength") = Num(0)
  THEN Infinity
  ELSE OrElse(ToNumber(Get(args, "maxPropertyLength")), Num(DEFAULT_MAX_PROPERTY_LENGTH))

\* ------------------------------------------------- steps of handleTool
\* What a tool's code does next, given the values its completed
\* `await hubspot(...)` calls returned so far: issue the next remote call,
\* return a result, or throw.
Fetch(method, path, parts, payload) ==
  [kind |-> "fetch", method |-> method, path |-> path, parts |-> parts,
   payload |-> payload]
Return(value) == [kind |-> "return", value |-> value]
Throw(message) == [kind |-> "throw", message |-> message]

\* The bag b restricted to the keys whose condition holds (keys set by `if`).
Only(b, keys) == [k \in DOMAIN b \cap keys |-> b[k]]

\* The keys of args that are truthy, among ks.
TruthyKeys(args, ks) == {k \in ks : Truthy(Get(args, k))}

\* The rows of a page: data.results as a sequence of bags.
Rows(data) ==
  LET a == Field(data, "results")
  IN [i \in 1..Len(a.v) |-> a.v[i].v]

\* The character sequences of an array of strings.
Terms(a) == [i \in 1..Len(a.v) |-> a.v[i].v]

\* { ...data, results: rows }
WithResults(data, rows) ==
  [k \in DOMAIN data.v \cup {"results"} |-> IF k = "results" THEN rows ELSE data.v[k]]

\* A compacted page as a value.
PageValue(page) ==
  [total |-> page.total,
   results |-> Arr([i \in 1..Len(page.results) |-> Obj(page.results[i])]),
   paging |-> page.paging]

\* The query of a list call: limit, after and properties.
ListQuery(args, dflt, max) ==
  Only([limit |-> Str(StringOf(LimitOf(args, dflt, max))),
        after |-> Str(StringOf(Get(args, "after"))),
        properties |-> Get(args, "properties")],
       {"limit"} \cup TruthyKeys(args, {"after"})
         \cup {k \in {"properties"} : IsArray(Get(args, k))})

\* The body of a contacts or companies search.
SearchBody(args) ==
  Only([limit |-> LimitOf(args, DEFAULT_MAX_RESULTS, 100),
        query |-> Get(args, "query"),
        filterGroups |-> Get(args, "filterGroups"),
        properties |-> Get(args, "properties"),
        sorts |-> Get(args, "sorts")],
       {"limit"} \cup TruthyKeys(args, {"query", "filterGroups"})
         \cup {k \in {"properties", "sorts"} : IsArray(Get(args, k))})

\* The contact page compacted first and filtered afterwards.
contactsPageCompactFirst(args, data) ==
  LET excludeCompanies ==
        IF IsArray(Get(args, "excludeCompanies")) THEN args.excludeCompanies ELSE Arr(<<>>)
      excludeJobTitles ==
        IF IsArray(Get(args, "excludeJobTitles")) THEN args.excludeJobTitles ELSE Arr(<<>>)
      compacted ==
        compactResults(WithResults(data, Rows(data)),
          [maxPropertyLength |-> MaxLenOf(args),
           includeMetadata |-> Bool(Truthy(Get(args, "includeMetadata")))])
      f == filterResults(compacted.results,
             [excludeCompanies |-> Terms(excludeCompanies),
              excludeJobTitles |-> Terms(excludeJobTitles)])
  IN Obj([k \in {"total", "results", "paging", "_meta"} |->
            IF k = "_meta"
            THEN IF f.excluded > 0
                 THEN Obj([excluded |-> Num(f.excluded),
                           excludeCompanies |-> excludeCompanies,
                           excludeJobTitles |-> excludeJobTitles])
                 ELSE Undefined
            ELSE PageValue([compacted EXCEPT !.results = f.results])[k]])

\* The contact page with _meta attached whether or not a contact was excluded.
contactsPageAlwaysMeta(args, data) ==
  LET excludeCompanies ==
        IF IsArray(Get(args, "excludeCompanies")) THEN args.excludeCompanies ELSE Arr(<<>>)
      excludeJobTitles ==
        IF IsArray(Get(args, "excludeJobTitles")) THEN args.excludeJobTitles ELSE Arr(<<>>)
      f == filterResults(Rows(data),
             [excludeCompanies |-> Terms(excludeCompanies),
              excludeJobTitles |-> Terms(excludeJobTitles)])
      compacted ==
        compactResults(WithResults(data, f.results),
          [maxPropertyLength |-> MaxLenOf(args),
           includeMetadata |-> Bool(Truthy(Get(args, "includeMetadata")))])
  IN Obj([k \in {"total", "results", "paging", "_meta"} |->
            IF k = "_meta"
            THEN Obj([excluded |-> Num(f.excluded),
                      excludeCompanies |-> excludeCompanies,
                      excludeJobTitles |-> excludeJobTitles])
            ELSE PageValue(compacted)[k]])

\* hubspot_list_contacts and hubspot_search_contacts after the page arrived:
\* filter, then compact, then attach _meta.
contactsPage(args, data) ==
  LET excludeCompanies ==
        IF IsArray(Get(args, "excludeCompanies")) THEN args.excludeCompanies ELSE Arr(<<>>)
      excludeJobTitles ==
        IF IsArray(Get(args, "excludeJobTitles")) THEN args.excludeJobTitles ELSE Arr(<<>>)
      f == filterResults(Rows(data),
             [excludeCompanies |-> Terms(excludeCompanies),
              excludeJobTitles |-> Terms(excludeJobTitles)])
      maxLen == MaxLenOf(args)
      compacted ==
        compactResults(WithResults(data, f.results),
          [maxPropertyLength |-> maxLen,
           includeMetadata |-> Bool(Truthy(Get(args, "includeMetadata")))])
  IN Obj([k \in {"total", "results", "paging", "_meta"} |->
            IF k = "_meta"
            THEN IF f.excluded > 0
                 THEN Obj([excluded |-> Num(f.excluded),
                           excludeCompanies |-> excludeCompanies,
                           excludeJobTitles |-> excludeJobTitles])
                 ELSE Undefined
            ELSE PageValue(compacted)[k]])

\* hubspot_list_companies and hubspot_search_companies after the page arrived.
companiesPage(args, data) ==
  LET maxLen == MaxLenOf(args)
  IN Obj(PageValue(
       compactResults(WithResults(data, Rows(data)),
         [maxPropertyLength |-> maxLen,
          includeMetadata |-> Bool(Truthy(Get(args, "includeMetadata")))])))

list_contacts(args, replies) ==
  IF Len(replies) = 0
  THEN Fetch("GET", "/crm/v3/objects/contacts?{}", <<>>,
             Obj(ListQuery(args, DEFAULT_MAX_RESULTS, 100)))
  ELSE Return(contactsPage(args, replies[1]))

search_contacts(args, replies) ==
  IF Len(replies) = 0
  THEN Fetch("POST", "/crm/v3/objects/contacts/search", <<>>, Obj(SearchBody(args)))
  ELSE Return(contactsPage(args, replies[1]))

list_companies(args, replies) ==
  IF Len(replies) = 0
  THEN Fetch("GET", "/crm/v3/objects/companies?{}", <<>>,
             Obj(ListQuery(args, DEFAULT_MAX_RESULTS, 100)))
  ELSE Return(companiesPage(args, replies[1]))

search_companies(args, replies) ==
  IF Len(replies) = 0
  THEN Fetch("POST", "/crm/v3/objects/companies/search", <<>>, Obj(SearchBody(args)))
  ELSE Return(companiesPage(args, replies[1]))

\* `${x}` for an argument or reply field.
Interp(x) == StringOf(x)

\* The instant `new Date()` reads, as an ISO string: an input of the clock.
IsoNow == Str(<<"n", "o", "w">>)

\* The instant 24 hours after it (the default due date of a task).
IsoTomorrow == Str(<<"n", "o", "w", "+", "1", "d">>)

\* A properties bag built by `if (args.a) properties.p = String(args.a)`:
\* pairs is a set of <<argument, property>> pairs.
PropsFrom(args, pairs) ==
  [p \in {pr[2] : pr \in {q \in pairs : Truthy(Get(args, q[1]))}} |->
     Str(StringOf(Get(args, (CHOOSE q \in pairs : q[2] = p)[1])))]

\* The filters pushed, in source order, for the convenience arguments that
\* are truthy: specs is a sequence of <<argument, propertyName, operator>>.
FiltersFrom(args, specs) ==
  LET on(sp) == Truthy(Get(args, sp[1]))
      sel == SelectSeq(specs, on)
  IN [i \in 1..Len(sel) |->
        Obj([propertyName |-> sel[i][2], operator |-> sel[i][3],
             value |-> Str(StringOf(Get(args, sel[i][1])))])]

\* get / create / update / delete of one contact, company or deal, and
\* hubspot_get_owner: `return hubspot(...)`.
getObject(path, idKey, args, replies) ==
  IF Len(replies) = 0
  THEN Fetch("GET", path, <<Interp(Get(args, idKey))>>,
             Obj(Only([properties |-> Get(args, "properties")],
                      {k \in {"properties"} : IsArray(Get(args, k))})))
  ELSE Return(replies[1])

createObject(path, args, replies) ==
  IF Len(replies) = 0
  THEN Fetch("POST", path, <<>>, Obj([properties |-> Get(args, "properties")]))
  ELSE Return(replies[1])

updateObject(path, args, replies) ==
  IF Len(replies) = 0
  THEN Fetch("PATCH", path, <<Interp(Get(args, "id"))>>,
             Obj([properties |-> Get(args, "properties")]))
  ELSE Return(replies[1])

deleteObject(path, args, replies) ==
  IF Len(replies) = 0
  THEN Fetch("DELETE", path, <<Interp(Get(args, "id"))>>, Undefined)
  ELSE Return(replies[1])

\* hubspot_contact_properties, hubspot_company_properties, hubspot_deal_properties
listProperties(path, args, replies) ==
  IF Len(replies) = 0
  THEN Fetch("GET", path, <<>>, Undefined)
  ELSE LET rows == Rows(replies[1])
       IN Return(Arr([i \in 1..Len(rows) |->
                        Obj([k \in {"name", "label", "type", "description"} |->
                               Get(rows[i], k)])]))

list_owners(args, replies) ==
  IF Len(replies) = 0
  THEN Fetch("GET", "/crm/v3/owners?{}", <<>>,
             Obj(Only([limit |-> Str(StringOf(LimitOf(args, 100, 500))),
                       after |-> Str(StringOf(Get(args, "after"))),
                       archived |-> Str(<<"t", "r", "u", "e">>)],
                      {"limit"} \cup TruthyKeys(args, {"after", "archived"}))))
  ELSE Return(replies[1])

\* hubspot_log_email, hubspot_create_note, hubspot_create_task: create the
\* object, then associate it with the contact.
createLinked(type, idKey, label, properties, args, replies) ==
  LET contactId == Str(StringOf(Get(args, "contactId")))
  IN CASE Len(replies) = 0 ->
            Fetch("POST", "/crm/v3/objects/{}", <<type>>, Obj([properties |-> Obj(properties)]))
       [] Len(replies) = 1 ->
            Fetch("PUT", "/crm/v3/objects/{}/{}/associations/contacts/{}/{}",
                  <<type, Interp(Field(replies[1], "id")), contactId.v, label>>, Undefined)
       [] OTHER ->
            Return(Obj([k \in {"success", idKey, "contactId", "properties"} |->
                          CASE k = "success" -> Bool(TRUE)
                            [] k = idKey -> Field(replies[1], "id")
                            [] k = "contactId" -> contactId
                            [] OTHER -> Field(replies[1], "properties")]))

log_email(args, replies) ==
  createLinked(<<"e", "m", "a", "i", "l", "s">>, "emailId",
    <<"e", "m", "a", "i", "l", "_", "t", "o", "_", "c", "o", "n", "t", "a", "c", "t">>,
    [hs_email_subject |-> Str(StringOf(Get(args, "subject"))),
     hs_email_text |-> Str(StringOf(Get(args, "body"))),
     hs_email_direction |->
       Str(StringOf(OrElse(Get(args, "direction"), Str(<<"E", "M", "A", "I", "L">>)))),
     hs_timestamp |->
       IF Truthy(Get(args, "timestamp")) THEN Str(StringOf(args.timestamp)) ELSE IsoNow],
    args, replies)

create_note(args, replies) ==
  createLinked(<<"n", "o", "t", "e", "s">>, "noteId",
    <<"n", "o", "t", "e", "_", "t", "o", "_", "c", "o", "n", "t", "a", "c", "t">>,
    [hs_note_body |-> Str(StringOf(Get(args, "body"))),
     hs_timestamp |->
       IF Truthy(Get(args, "timestamp")) THEN Str(StringOf(args.timestamp)) ELSE IsoNow],
    args, replies)

create_task(args, replies) ==
  createLinked(<<"t", "a", "s", "k", "s">>, "taskId",
    <<"t", "a", "s", "k", "_", "t", "o", "_", "c", "o", "n", "t", "a", "c", "t">>,
    [hs_task_subject |-> Str(StringOf(Get(args, "subject"))),
     hs_timestamp |->
       IF Truthy(Get(args, "dueDate")) THEN Str(StringOf(args.dueDate)) ELSE IsoTomorrow,
     hs_task_status |->
       Str(<<"N", "O", "T", "_", "S", "T", "A", "R", "T", "E", "D">>)]
    @@ PropsFrom(args, {<<"body", "hs_task_body">>, <<"ownerId", "hubspot_owner_id">>,
                        <<"priority", "hs_task_priority">>}),
    args, replies)

\* The id and properties of each row of a search page (tasks, deals).
idAndProperties(data) ==
  LET rows == Rows(data)
  IN Obj([total |-> Field(data, "total"),
          results |-> Arr([i \in 1..Len(rows) |->
                             Obj([id |-> Get(rows[i], "id"),
                                  properties |-> Get(rows[i], "properties")])]),
          paging |-> Field(data, "paging")])

\* A search body with the synthesized filter group, when any filter was pushed.
\* The body with one filter group per filter.
withFilterGroupsPerFilter(body, filters) ==
  IF Len(filters) > 0
  THEN body @@ [filterGroups |->
                  Arr([i \in 1..Len(filters) |-> Obj([filters |-> Arr(<<filters[i]>>)])])]
  ELSE body

withFilterGroups(body, filters) ==
  IF Len(filters) > 0
  THEN body @@ [filterGroups |-> Arr(<<Obj([filters |-> Arr(filters)])>>)]
  ELSE body

search_tasks(args, replies) ==
  LET filters ==
        FiltersFrom(args, <<<<"ownerId", "hubspot_owner_id", "EQ">>,
                            <<"status", "hs_task_status", "EQ">>,
                            <<"dueBefore", "hs_timestamp", "LT">>,
                            <<"dueAfter", "hs_timestamp", "GT">>>>)
      body ==
        [limit |-> LimitOf(args, DEFAULT_MAX_RESULTS, 100),
         properties |-> Arr(<<"hs_task_subject", "hs_task_body", "hs_task_status",
                              "hs_timestamp", "hubspot_owner_id", "hs_task_priority">>),
         sorts |-> Arr(<<Obj([propertyName |-> "hs_timestamp",
                              direction |-> "ASCENDING"])>>)]
  IN IF Len(replies) = 0
     THEN Fetch("POST", "/crm/v3/objects/tasks/search", <<>>,
                Obj(withFilterGroups(body, filters)))
     ELSE Return(idAndProperties(replies[1]))

\* hubspot_update_task without the check for an empty properties bag.
update_taskUnvalidated(args, replies) ==
  LET properties ==
        PropsFrom(args, {<<"status", "hs_task_status">>, <<"subject", "hs_task_subject">>,
                         <<"body", "hs_task_body">>, <<"dueDate", "hs_timestamp">>,
                         <<"ownerId", "hubspot_owner_id">>,
                         <<"priority", "hs_task_priority">>})
  IN IF Len(replies) = 0
     THEN Fetch("PATCH", "/crm/v3/objects/tasks/{}",
                <<StringOf(Get(args, "taskId"))>>, Obj([properties |-> Obj(properties)]))
     ELSE Return(Obj([success |-> Bool(TRUE),
                      taskId |-> Field(replies[1], "id"),
                      properties |-> Field(replies[1], "properties")]))

update_task(args, replies) ==
  LET properties ==
        PropsFrom(args, {<<"status", "hs_task_status">>, <<"subject", "hs_task_subject">>,
                         <<"body", "hs_task_body">>, <<"dueDate", "hs_timestamp">>,
                         <<"ownerId", "hubspot_owner_id">>,
                         <<"priority", "hs_task_priority">>})
  IN IF DOMAIN properties = {}
     THEN Throw(Msg("At least one property to update must be provided", <<>>))
     ELSE IF Len(replies) = 0
     THEN Fetch("PATCH", "/crm/v3/objects/tasks/{}",
                <<StringOf(Get(args, "taskId"))>>, Obj([properties |-> Obj(properties)]))
     ELSE Return(Obj([success |-> Bool(TRUE),
                      taskId |-> Field(replies[1], "id"),
                      properties |-> Field(replies[1], "properties")]))

\* hubspot_create_deal associating the company before the contact.
create_dealCompanyFirst(args, replies) ==
  LET properties ==
        [dealname |-> Str(StringOf(Get(args, "dealname")))]
        @@ PropsFrom(args, {<<"amount", "amount">>, <<"closedate", "closedate">>,
                            <<"pipeline", "pipeline">>, <<"dealstage", "dealstage">>,
                            <<"ownerId", "hubspot_owner_id">>})
      assoc(target, key, label) ==
        Fetch("PUT", "/crm/v3/objects/deals/{}/associations/{}/{}/{}",
              <<Interp(Field(replies[1], "id")), target, Interp(Get(args, key)), label>>,
              Undefined)
      contact ==
        IF Truthy(Get(args, "contactId"))
        THEN <<<<<<"c", "o", "n", "t", "a", "c", "t", "s">>, "contactId",
                 <<"d", "e", "a", "l", "_", "t", "o", "_", "c", "o", "n", "t", "a", "c", "t">>>>>>
        ELSE <<>>
      company ==
        IF Truthy(Get(args, "companyId"))
        THEN <<<<<<"c", "o", "m", "p", "a", "n", "i", "e", "s">>, "companyId",
                 <<"d", "e", "a", "l", "_", "t", "o", "_", "c", "o", "m", "p", "a", "n", "y">>>>>>
        ELSE <<>>
      links == company \o contact
  IN IF Len(replies) = 0
     THEN Fetch("POST", "/crm/v3/objects/deals", <<>>, Obj([properties |-> Obj(properties)]))
     ELSE IF Len(replies) <= Len(links)
     THEN assoc(links[Len(replies)][1], links[Len(replies)][2], links[Len(replies)][3])
     ELSE Return(Obj([success |-> Bool(TRUE),
                      dealId |-> Field(replies[1], "id"),
                      properties |-> Field(replies[1], "properties"),
                      associations |->
                        Obj([contactId |-> OrElse(Get(args, "contactId"), Null),
                             companyId |-> OrElse(Get(args, "companyId"), Null)])]))

create_deal(args, replies) ==
  LET properties ==
        [dealname |-> Str(StringOf(Get(args, "dealname")))]
        @@ PropsFrom(args, {<<"amount", "amount">>, <<"closedate", "closedate">>,
                            <<"pipeline", "pipeline">>, <<"dealstage", "dealstage">>,
                            <<"ownerId", "hubspot_owner_id">>})
      assoc(target, key, label) ==
        Fetch("PUT", "/crm/v3/objects/deals/{}/associations/{}/{}/{}",
              <<Interp(Field(replies[1], "id")), target, Interp(Get(args, key)), label>>,
              Undefined)
      contact ==
        IF Truthy(Get(args, "contactId"))
        THEN <<<<<<"c", "o", "n", "t", "a", "c", "t", "s">>, "contactId",
                 <<"d", "e", "a", "l", "_", "t", "o", "_", "c", "o", "n", "t", "a", "c", "t">>>>>>
        ELSE <<>>
      company ==
        IF Truthy(Get(args, "companyId"))
        THEN <<<<<<"c", "o", "m", "p", "a", "n", "i", "e", "s">>, "companyId",
                 <<"d", "e", "a", "l", "_", "t", "o", "_", "c", "o", "m", "p", "a", "n", "y">>>>>>
        ELSE <<>>
      links == contact \o company
  IN IF Len(replies) = 0
     THEN Fetch("POST", "/crm/v3/objects/deals", <<>>, Obj([properties |-> Obj(properties)]))
     ELSE IF Len(replies) <= Len(links)
     THEN assoc(links[Len(replies)][1], links[Len(replies)][2], links[Len(replies)][3])
     ELSE Return(Obj([success |-> Bool(TRUE),
                      dealId |-> Field(replies[1], "id"),
                      properties |-> Field(replies[1], "properties"),
                      associations |->
                        Obj([contactId |-> OrElse(Get(args, "contactId"), Null),
                             companyId |-> OrElse(Get(args, "companyId"), Null)])]))

update_deal(args, replies) ==
  LET properties ==
        PropsFrom(args, {<<"dealname", "dealname">>, <<"amount", "amount">>,
                         <<"closedate", "closedate">>, <<"dealstage", "dealstage">>,
                         <<"ownerId", "hubspot_owner_id">>})
  IN IF DOMAIN properties = {}
     THEN Throw(Msg("At least one property to update must be provided", <<>>))
     ELSE IF Len(replies) = 0
     THEN Fetch("PATCH", "/crm/v3/objects/deals/{}",
                <<StringOf(Get(args, "id"))>>, Obj([properties |-> Obj(properties)]))
     ELSE Return(Obj([success |-> Bool(TRUE),
                      dealId |-> Field(replies[1], "id"),
                      properties |-> Field(replies[1], "properties")]))

search_deals(args, replies) ==
  LET filters ==
        FiltersFrom(args, <<<<"ownerId", "hubspot_owner_id", "EQ">>,
                            <<"dealstage", "dealstage", "EQ">>,
                            <<"pipeline", "pipeline", "EQ">>,
                            <<"closeAfter", "closedate", "GTE">>,
                            <<"closeBefore", "closedate", "LTE">>,
                            <<"minAmount", "amount", "GTE">>>>)
      body ==
        [limit |-> LimitOf(args, DEFAULT_MAX_RESULTS, 100),
         properties |->
           IF IsArray(Get(args, "properties")) THEN args.properties
           ELSE Arr(<<"dealname", "amount", "closedate", "dealstage", "pipeline",
                      "hubspot_owner_id">>),
         sorts |-> Arr(<<Obj([propertyName |-> "closedate", direction |-> "ASCENDING"])>>)]
        @@ Only([query |-> Get(args, "query")], TruthyKeys(args, {"query"}))
  IN IF Len(replies) = 0
     THEN Fetch("POST", "/crm/v3/objects/deals/search", <<>>,
                Obj(withFilterGroups(body, filters)))
     ELSE Return(idAndProperties(replies[1]))

delete_deal(args, replies) ==
  IF Len(replies) = 0
  THEN Fetch("DELETE", "/crm/v3/objects/deals/{}", <<Interp(Get(args, "id"))>>, Undefined)
  ELSE Return(Obj([success |-> Bool(TRUE), deleted |-> Get(args, "id")]))

list_pipelines(args, replies) ==
  IF Len(replies) = 0
  THEN Fetch("GET", "/crm/v3/pipelines/deals", <<>>, Undefined)
  ELSE LET rows == Rows(replies[1])
           stages(p) == Rows(Obj([results |-> Get(p, "stages")]))
       IN Return(Arr([i \in 1..Len(rows) |->
                        Obj([id |-> Get(rows[i], "id"),
                             label |-> Get(rows[i], "label"),
                             stages |->
                               Arr([j \in 1..Len(stages(rows[i])) |->
                                      Obj([k \in {"id", "label", "displayOrder"} |->
                                             Get(stages(rows[i])[j], k)])])])]))

\* ------------------------------------------------ hubspot_get_engagements
allTypes == <<"notes", "emails", "calls", "meetings", "tasks">>

\* requestedTypes.filter(t => allTypes.includes(t))
typesToFetch(args) ==
  LET requestedTypes ==
        IF IsArray(Get(args, "types"))
        THEN [i \in 1..Len(args.types.v) |-> args.types.v[i].v]
        ELSE allTypes
      known(t) == \E i \in 1..Len(allTypes) : allTypes[i] = t
  IN SelectSeq(requestedTypes, known)

\* The hardcoded property subset a batch read asks for, per type.
engagementProperties(type) ==
  CASE type = "notes" -> <<"hs_note_body", "hs_timestamp", "hs_createdate">>
    [] type = "emails" -> <<"hs_email_subject", "hs_email_text", "hs_email_direction",
                            "hs_timestamp", "hs_createdate">>
    [] type = "calls" -> <<"hs_call_title", "hs_call_body", "hs_call_duration",
                           "hs_call_direction", "hs_timestamp", "hs_createdate">>
    [] type = "meetings" -> <<"hs_meeting_title", "hs_meeting_body",
                              "hs_meeting_start_time", "hs_meeting_end_time",
                              "hs_createdate">>
    [] OTHER -> <<"hs_task_subject", "hs_task_body", "hs_task_status", "hs_timestamp",
                  "hs_createdate">>

\* a.slice(0, limit) for a sequence a and a number value limit.
slice0(a, limit) ==
  LET n == CASE limit.t = "number" ->
                  IF limit.v < 0
                  THEN (IF Len(a) + limit.v < 0 THEN 0 ELSE Len(a) + limit.v)
                  ELSE IF limit.v > Len(a) THEN Len(a) ELSE limit.v
             [] limit.t = "Infinity" -> Len(a)
             [] OTHER -> 0
  IN SubSeq(a, 1, n)

\* The association lookup a per-type subtask starts with.
engagementLookup(args, type) ==
  Fetch("GET", "/crm/v4/objects/contacts/{}/associations/{}",
        <<StringOf(Get(args, "contactId")), type>>, Undefined)

\* The batch read asking for every associated id, whatever the limit.
engagementAfterLookupUnlimited(args, type, associations) ==
  LET results == Field(associations, "results")
  IN IF Truthy(results) /\ IsArray(results) /\ Len(results.v) > 0
     THEN Fetch("POST", "/crm/v3/objects/{}/batch/read", <<type>>,
                Obj([inputs |-> Arr([i \in 1..Len(results.v) |->
                                       Obj([id |-> Field(results.v[i], "toObjectId")])]),
                     properties |-> Arr(engagementProperties(type))]))
     ELSE Return(Arr(<<>>))

\* What the subtask does once the lookup returned `associations`: the batch
\* read of the first `limit` ids, or an empty list for the type.
engagementAfterLookup(args, type, associations) ==
  LET limit == LimitOf(args, DEFAULT_MAX_RESULTS, 100)
      results == Field(associations, "results")
  IN IF Truthy(results) /\ IsArray(results) /\ Len(results.v) > 0
     THEN LET objectIds ==
                [i \in 1..Len(slice0(results.v, limit)) |->
                   Field(results.v[i], "toObjectId")]
          IN Fetch("POST", "/crm/v3/objects/{}/batch/read", <<type>>,
                   Obj([inputs |-> Arr([i \in 1..Len(objectIds) |->
                                          Obj([id |-> objectIds[i]])]),
                        properties |-> Arr(engagementProperties(type))]))
     ELSE Return(Arr(<<>>))

\* engagements[type] once the batch read returned `batchResponse`; a
\* response without a results array throws, which the subtask's catch turns
\* into the empty list.
engagementAfterBatch(batchResponse) ==
  IF IsArray(Field(batchResponse, "results"))
  THEN LET rows == Rows(batchResponse)
       IN Arr([i \in 1..Len(rows) |->
                 Obj([id |-> Get(rows[i], "id"),
                      properties |-> Get(rows[i], "properties")])])
  ELSE Arr(<<>>)

\* The value hubspot_get_engagements returns after Promise.all.
engagementsResult(args, engagements) ==
  Obj([contactId |-> Str(StringOf(Get(args, "contactId"))),
       engagements |-> Obj(engagements),
       _meta |-> Obj([typesRequested |->
                        Arr([i \in 1..Len(typesToFetch(args)) |->
                               Atom(typesToFetch(args)[i])])])])

\* ------------------------------------------------------------- handleTool
\* The switch of handleTool: the next step of tool `name`.
handleToolStep(name, args, replies) ==
  CASE name = "hubspot_list_contacts" -> list_contacts(args, replies)
    [] name = "hubspot_get_contact" ->
         getObject("/crm/v3/objects/contacts/{}?{}", "id", args, replies)
    [] name = "hubspot_create_contact" ->
         createObject("/crm/v3/objects/contacts", args, replies)
    [] name = "hubspot_update_contact" ->
         updateObject("/crm/v3/objects/contacts/{}", args, replies)
    [] name = "hubspot_delete_contact" ->
         deleteObject("/crm/v3/objects/contacts/{}", args, replies)
    [] name = "hubspot_search_contacts" -> search_contacts(args, replies)
    [] name = "hubspot_list_companies" -> list_companies(args, replies)
    [] name = "hubspot_get_company" ->
         getObject("/crm/v3/objects/companies/{}?{}", "id", args, replies)
    [] name = "hubspot_create_company" ->
         createObject("/crm/v3/objects/companies", args, replies)
    [] name = "hubspot_update_company" ->
         updateObject("/crm/v3/objects/companies/{}", args, replies)
    [] name = "hubspot_delete_company" ->
         deleteObject("/crm/v3/objects/companies/{}", args, replies)
    [] name = "hubspot_search_companies" -> search_companies(args, replies)
    [] name = "hubspot_contact_properties" ->
         listProperties("/crm/v3/properties/contacts", args, replies)
    [] name = "hubspot_company_properties" ->
         listProperties("/crm/v3/properties/companies", args, replies)
    [] name = "hubspot_list_owners" -> list_owners(args, replies)
    [] name = "hubspot_get_owner" ->
         getObject("/crm/v3/owners/{}", "ownerId", args, replies)
    [] name = "hubspot_get_engagements" -> [kind |-> "fanout"]
    [] name = "hubspot_log_email" -> log_email(args, replies)
    [] name = "hubspot_create_note" -> create_note(args, replies)
    [] name = "hubspot_create_task" -> create_task(args, replies)
    [] name = "hubspot_search_tasks" -> search_tasks(args, replies)
    [] name = "hubspot_update_task" -> update_task(args, replies)
    [] name = "hubspot_get_deal" ->
         getObject("/crm/v3/objects/deals/{}?{}", "id", args, replies)
    [] name = "hubspot_create_deal" -> create_deal(args, replies)
    [] name = "hubspot_update_deal" -> update_deal(args, replies)
    [] name = "hubspot_search_deals" -> search_deals(args, replies)
    [] name = "hubspot_delete_deal" -> delete_deal(args, replies)
    [] name = "hubspot_deal_properties" ->
         listProperties("/crm/v3/properties/deals", args, replies)
    [] name = "hubspot_list_pipelines" -> list_pipelines(args, replies)
    [] OTHER -> Throw(Msg("Unknown tool: {}", <<name>>))

\* What handleTool resolves to for a returned value: one text block holding
\* the JSON serialization.
toolContent(value) ==
  [content |-> <<[type |-> "text", text |-> JsonValue(value)]>>]

\* ---------------------------------------------------------------- state
\* The request slots: invocations of the serverless handler.
Slots == {1}

VARIABLES
  token,      \* process.env.HUBSPOT_ACCESS_TOKEN is set
  request,    \* per slot: the HTTP request being handled, or NoRequest
  pc,         \* per slot: "idle", "tool" (awaiting a hubspot call of a
              \* sequential tool), "fanout" (awaiting Promise.all), "done"
  frame,      \* per slot: the locals of handleTool, or NoFrame
  fetches,    \* per slot: the fetch calls issued, in order, with their state
  responses,  \* per slot: the HTTP responses sent, in order
  call        \* a direct application of a pure function, or NoCall

vars == <<token, request, pc, frame, fetches, responses, call>>

NoRequest == [method |-> "none"]
NoFrame == [name |-> "none"]
NoCall == [fn |-> "none"]
NoBody == [t |-> "undefined"]

\* hubspot(): the credential check. It throws before any fetch is made.
NotConfigured == Msg("HUBSPOT_ACCESS_TOKEN not configured", <<>>)

\* hubspot(): what the settled fetch makes it return or throw. outcome is
\* [kind |-> "ok", json], [kind |-> "status", status, text] (a non-2xx
\* response) or [kind |-> "network"] (fetch rejected).
hubspot(method, outcome) ==
  CASE outcome.kind = "network" -> Throw(Msg("fetch failed", <<>>))
    [] outcome.kind = "status" ->
         Throw(Msg("HubSpot API {}: {}", <<outcome.status, outcome.text>>))
    [] OTHER ->
         IF method = "DELETE"
         THEN Return(Obj([success |-> Bool(TRUE)]))
         ELSE Return(outcome.json)

\* The id of the request body, as the catch block reads it: req.body?.id
bodyId(body) == IF body = NoBody THEN Undefined ELSE Get(body, "id")

\* The catch block answering without the request's id.
caughtWithoutId(message, body) ==
  [status |-> 200, body |-> RpcError(-32603, message, Undefined)]

\* The catch block answering with HTTP 500.
caughtWithStatus500(message, body) ==
  [status |-> 500, body |-> RpcError(-32603, message, bodyId(body))]

\* The catch block of handler: HTTP 200 with a JSON-RPC error -32603.
caught(message, body) ==
  [status |-> 200, body |-> RpcError(-32603, message, bodyId(body))]

\* The default branch answering with the internal-error code.
methodNotFoundAsInternal(method, id) ==
  [status |-> 200, body |-> RpcError(-32603, Msg("Method not found: {}", <<method>>), id)]

\* The default branch of the method switch: HTTP 200 with error -32601.
methodNotFound(method, id) ==
  [status |-> 200, body |-> RpcError(-32601, Msg("Method not found: {}", <<method>>), id)]

\* The answer to an HTTP method other than POST and OPTIONS.
methodNotAllowed == [status |-> 405, body |-> [error |-> "Method not allowed"]]

\* The handler sending `response` twice.
SentTwice(r, response) ==
  /\ pc' = [pc EXCEPT ![r] = "done"]
  /\ responses' = [responses EXCEPT ![r] = Append(Append(@, response), response)]

\* The state of a slot after the handler sent `response`.
Sent(r, response) ==
  /\ pc' = [pc EXCEPT ![r] = "done"]
  /\ responses' = [responses EXCEPT ![r] = Append(@, response)]

\* A sequential tool runs from the values returned so far up to its next
\* await or to the response. fs is the slot's fetch log before the step.
Advance(r, body, name, args, replies, fs) ==
  LET step == handleToolStep(name, args, replies)
      fr == [name |-> name, args |-> args, replies |-> replies,
             subtasks |-> <<>>, engagements |-> EmptyMap]
  IN /\ frame' = [frame EXCEPT ![r] = fr]
     /\ CASE step.kind = "throw" ->
               /\ Sent(r, caught(step.message, body))
               /\ fetches' = [fetches EXCEPT ![r] = fs]
          [] step.kind = "return" ->
               /\ Sent(r, [status |-> 200,
                           body |-> RpcResult(toolContent(step.value), Get(body, "id"))])
               /\ fetches' = [fetches EXCEPT ![r] = fs]
          [] OTHER ->
               IF token
               THEN /\ fetches' = [fetches EXCEPT ![r] =
                                     Append(fs, [req |-> step, state |-> "pending"])]
                    /\ pc' = [pc EXCEPT ![r] = "tool"]
                    /\ UNCHANGED responses
               ELSE /\ Sent(r, caught(NotConfigured, body))
                    /\ fetches' = [fetches EXCEPT ![r] = fs]

\* --------------------------------------------------------------- inputs
\* All sequences over S of length at most n.
SeqsUpTo(S, n) == UNION {[1..k -> S] : k \in 0..n}

\* A bag without the keys whose value is undefined.
Defined(b) == [k \in {kk \in DOMAIN b : b[kk] # Undefined} |-> b[k]]

\* A string of the greatest length, of one character.
Long(c) == [i \in 1..MaxStrLen |-> c]

Strings == SeqsUpTo(Chars, MaxStrLen)

\* The values a property takes: strings of every length, and non-strings.
PropValues == {Str(st) : st \in Strings} \cup {Num(42), Bool(TRUE), Null}

\* The property bags the pure functions are applied to.
PropBags ==
  {EmptyMap}
  \cup {[company |-> v] : v \in PropValues}
  \cup {[company |-> v, notes |-> w] : v \in PropValues, w \in {Str(Long("B")), Num(7)}}

\* The maxLength values truncation is applied with.
MaxLengths == {Num(n) : n \in -1..MaxStrLen} \cup {Infinity}

\* CRM objects that differ in the metadata they carry.
MetaItems ==
  {Defined([id |-> Str(<<"5">>),
            properties |-> Obj([company |-> Str(Long("a"))]),
            createdAt |-> c, updatedAt |-> u, archived |-> a, url |-> l]) :
     c \in {Undefined, Str(<<"d">>), Str(<<>>)}, u \in {Undefined, Str(<<"d">>)},
     a \in {Undefined, Bool(TRUE), Bool(FALSE)}, l \in {Undefined, Str(<<"u">>), Null}}

\* The CRM objects compaction is applied to.
CompactItems ==
  {[id |-> Str(<<"5">>), properties |-> Obj(b)] : b \in PropBags}
  \cup {[id |-> Str(<<"5">>)]}
  \cup MetaItems

CompactOptions ==
  {Defined([maxPropertyLength |-> m, includeMetadata |-> i]) :
     m \in {Undefined} \cup MaxLengths, i \in {Undefined, Bool(TRUE), Bool(FALSE)}}

\* The CRM objects a page of the remote system is made of.
PageItems ==
  {[id |-> Str(<<"1">>),
    properties |-> Obj([company |-> Str(<<"a", "B">>), jobtitle |-> Str(<<"B">>)])],
   [id |-> Str(<<"2">>),
    properties |-> Obj([company |-> Str(Long("a")), notes |-> Num(42)]),
    createdAt |-> Str(<<"d">>), archived |-> Bool(FALSE), url |-> Str(<<>>)],
   [id |-> Str(<<"3">>),
    properties |-> Obj([company |-> Null, jobtitle |-> Str(<<"a">>)])],
   [id |-> Str(<<"4">>), updatedAt |-> Str(<<"d">>)]}

\* The items the filter is applied to directly: those of a page, and one
\* whose company is the empty string.
FilterItems ==
  PageItems
  \cup {[id |-> Str(<<"5">>),
         properties |-> Obj([company |-> Str(<<>>), jobtitle |-> Str(<<"a", "B">>)])]}

\* The exclusion lists the filter is applied with.
FilterOptions ==
  {Defined([excludeCompanies |-> c, excludeJobTitles |-> j]) :
     c \in {Undefined, Arr(<<>>), Arr(<<<<"a">>>>), Arr(<<<<"B">>, <<"a", "a">>>>),
            Arr(<<<<>>>>)},
     j \in {Undefined, Arr(<<>>), Arr(<<<<"b">>>>)}}

\* The pages the remote system answers a list or search of contacts or
\* companies with.
Pages ==
  {Obj(Defined([results |-> Arr([i \in 1..Len(rows) |-> Obj(rows[i])]),
                total |-> e[1], paging |-> e[2]])) :
     rows \in SeqsUpTo(PageItems, MaxPage),
     e \in {<<Undefined, Undefined>>, <<Num(9), Obj([next |-> Str(<<"c">>)])>>}}

\* The tools the README's Available Tools table lists.
README_TOOLS ==
  {"hubspot_list_contacts", "hubspot_get_contact", "hubspot_create_contact",
   "hubspot_update_contact", "hubspot_delete_contact", "hubspot_search_contacts",
   "hubspot_list_companies", "hubspot_get_company", "hubspot_create_company",
   "hubspot_update_company", "hubspot_delete_company", "hubspot_search_companies",
   "hubspot_contact_properties", "hubspot_company_properties", "hubspot_list_owners",
   "hubspot_get_owner", "hubspot_get_engagements", "hubspot_log_email",
   "hubspot_log_call", "hubspot_log_meeting", "hubspot_delete_call",
   "hubspot_delete_meeting", "hubspot_create_note", "hubspot_get_task",
   "hubspot_create_task", "hubspot_search_tasks", "hubspot_update_task",
   "hubspot_delete_task", "hubspot_list_deals", "hubspot_get_deal",
   "hubspot_create_deal", "hubspot_update_deal", "hubspot_search_deals",
   "hubspot_delete_deal", "hubspot_deal_properties", "hubspot_list_pipelines",
   "hubspot_get_associations", "hubspot_create_association",
   "hubspot_delete_association", "hubspot_list_lists", "hubspot_get_list",
   "hubspot_create_list", "hubspot_update_list", "hubspot_delete_list",
   "hubspot_get_list_memberships", "hubspot_add_to_list", "hubspot_remove_from_list",
   "hubspot_search_lists"}

\* Names a caller may send that the catalog does not hold.
UnknownNames == {"hubspot_log_call", "no_such_tool"}

\* The JSON-RPC ids a request carries: none, or a number.
Ids == {Undefined, Num(7)}

\* The argument bags each tool is called with.
ContactArgs ==
  {Defined([excludeCompanies |-> c, excludeJobTitles |-> j,
            maxPropertyLength |-> m, includeMetadata |-> i]) :
     c \in {Undefined, Arr(<<>>), Arr(<<Str(<<"B">>)>>)},
     j \in {Undefined, Arr(<<Str(<<"a">>)>>)},
     m \in {Undefined, Num(0), Num(1), Num(MaxStrLen)},
     i \in {Undefined, Bool(TRUE)}}

CompanyArgs ==
  {Defined([maxPropertyLength |-> m, includeMetadata |-> i]) :
     m \in {Undefined, Num(0), Num(1), Num(MaxStrLen)}, i \in {Undefined, Bool(TRUE)}}

EngagementArgs ==
  {[contactId |-> Str(<<"9">>)],
   [contactId |-> Str(<<"9">>), types |-> Arr(<<Atom("calls"), Atom("emails")>>)],
   [contactId |-> Str(<<"9">>), types |-> Arr(<<Atom("calls"), Atom("emails")>>),
    limit |-> Num(1)],
   [contactId |-> Str(<<"9">>), types |-> Arr(<<Atom("sms")>>)],
   [contactId |-> Str(<<"9">>), types |-> Arr(<<Atom("calls")>>), limit |-> Num(-1)]}

ArgsFor(name) ==
  CASE name = "hubspot_list_contacts" -> ContactArgs
    [] name = "hubspot_search_contacts" ->
         ContactArgs \cup {[filterGroups |-> Arr(<<Obj([filters |-> Arr(<<>>)])>>)]}
    [] name = "hubspot_list_companies" -> CompanyArgs
    [] name = "hubspot_search_companies" ->
         CompanyArgs \cup {[filterGroups |-> Arr(<<Obj([filters |-> Arr(<<>>)])>>)]}
    [] name = "hubspot_get_engagements" -> EngagementArgs
    [] name = "hubspot_update_task" ->
         {[taskId |-> Str(<<"9">>)],
          [taskId |-> Str(<<"9">>), status |-> Str(<<"D">>)],
          [taskId |-> Str(<<"9">>), subject |-> Str(<<>>)]}
    [] name = "hubspot_update_deal" ->
         {[id |-> Str(<<"9">>)], [id |-> Str(<<"9">>), amount |-> Num(5)]}
    [] name = "hubspot_create_deal" ->
         {Defined([dealname |-> Str(<<"Q">>), contactId |-> c, companyId |-> k]) :
            c \in {Undefined, Str(<<"1", "0">>)}, k \in {Undefined, Str(<<"2", "0">>)}}
    [] name \in {"hubspot_log_email", "hubspot_create_note", "hubspot_create_task"} ->
         {[contactId |-> Str(<<"9">>), subject |-> Str(<<"s">>), body |-> Str(<<"b">>)]}
    [] name \in {"hubspot_search_tasks", "hubspot_search_deals"} ->
         {EmptyMap, [ownerId |-> Str(<<"3">>)],
          [limit |-> Num(-5)], [limit |-> Num(101)],
          [ownerId |-> Str(<<>>)],
          [ownerId |-> Str(<<"3">>), dueBefore |-> Str(<<"2">>), minAmount |-> Str(<<"5">>)]}
    [] name = "hubspot_list_owners" ->
         {EmptyMap, [limit |-> Num(0)], [limit |-> Num(7)], [limit |-> Num(-5)],
          [limit |-> Num(501)], [limit |-> Str(<<"a">>)]}
    [] name = "hubspot_get_owner" -> {[ownerId |-> Str(<<"3">>)]}
    [] name \in {"hubspot_create_contact", "hubspot_create_company"} ->
         {[properties |-> Obj([company |-> Str(<<"a">>)])]}
    [] name \in {"hubspot_update_contact", "hubspot_update_company"} ->
         {[id |-> Str(<<"9">>), properties |-> Obj([company |-> Str(<<"a">>)])]}
    [] name \in {"hubspot_get_contact", "hubspot_get_company", "hubspot_get_deal",
                 "hubspot_delete_contact", "hubspot_delete_company",
                 "hubspot_delete_deal"} -> {[id |-> Str(<<"9">>)]}
    [] OTHER -> {EmptyMap}

\* The params of a tools/call request: missing, without a name, without
\* arguments, or a name with an argument bag.
CallParams ==
  {Undefined, Obj(EmptyMap),
   Obj([name |-> Atom("hubspot_list_owners")]), Obj([name |-> Atom("hubspot_update_task")])}
  \cup UNION {{Obj([name |-> Atom(n), arguments |-> Obj(a)]) : a \in ArgsFor(n)} :
                n \in ToolNames \cup UnknownNames}

\* The decoded bodies of a POST request.
Bodies ==
  {NoBody}
  \cup {Defined([method |-> Atom(m), params |-> pa, id |-> id]) :
          m \in {"initialize", "tools/list", "ping"},
          pa \in {Undefined, Obj(EmptyMap)}, id \in Ids}
  \cup {Defined([params |-> Undefined, id |-> id]) : id \in Ids}
  \cup {Defined([method |-> Atom("tools/call"), params |-> pa, id |-> id]) :
          pa \in CallParams, id \in Ids}

\* A sample CRM object and the samples the other endpoints answer with.
SampleObject == Obj([id |-> Str(<<"8">>), properties |-> Obj([company |-> Str(<<"a">>)])])

\* An engagement as a batch read returns it: the first property the read
\* asked for, which differs from type to type.
SampleEngagement(property) ==
  Obj([id |-> Str(<<"8">>), properties |-> Obj([k \in {property} |-> Str(<<"a">>)])])

SampleSchema ==
  Obj([results |-> Arr(<<Obj([name |-> Str(<<"n">>), label |-> Str(<<"l">>),
                              type |-> Str(<<"t">>), hidden |-> Bool(TRUE)])>>)])

SamplePipelines ==
  Obj([results |-> Arr(<<Obj([id |-> Str(<<"p">>), label |-> Str(<<"l">>),
                              archived |-> Bool(FALSE),
                              stages |-> Arr(<<Obj([id |-> Str(<<"s">>),
                                                    label |-> Str(<<"l">>),
                                                    displayOrder |-> Num(0),
                                                    metadata |-> Null])>>)])>>)])

SampleAssociations ==
  {Obj([results |-> Arr(<<>>)]),
   Obj([results |-> Arr(<<Obj([toObjectId |-> Str(<<"6">>)]),
                          Obj([toObjectId |-> Str(<<"7">>)])>>)])}

\* The JSON a 2xx response to the call `req` carries.
Replies(req) ==
  CASE req.path \in {"/crm/v3/objects/contacts?{}", "/crm/v3/objects/contacts/search",
                     "/crm/v3/objects/companies?{}", "/crm/v3/objects/companies/search"}
         -> Pages
    [] req.path \in {"/crm/v3/objects/tasks/search", "/crm/v3/objects/deals/search"}
         -> {Obj([results |-> Arr(<<>>)]), Obj([results |-> Arr(<<SampleObject>>)])}
    [] req.path = "/crm/v3/objects/{}/batch/read"
         -> {Obj([results |-> Arr(<<SampleEngagement(req.payload.v.properties.v[1])>>)])}
    [] req.path \in {"/crm/v3/properties/contacts", "/crm/v3/properties/companies",
                     "/crm/v3/properties/deals"} -> {SampleSchema}
    [] req.path = "/crm/v3/pipelines/deals" -> {SamplePipelines}
    [] req.path = "/crm/v4/objects/contacts/{}/associations/{}" -> SampleAssociations
    [] OTHER -> {SampleObject}

\* How a fetch settles: rejected, a non-2xx status, or a 2xx with JSON.
Outcomes(req) ==
  {[kind |-> "network"], [kind |-> "status", status |-> "500", text |-> "boom"]}
  \cup {[kind |-> "ok", json |-> j] : j \in Replies(req)}

\* -------------------------------------------------------------- handler
Init ==
  /\ token \in BOOLEAN
  /\ request = [r \in Slots |-> NoRequest]
  /\ pc = [r \in Slots |-> "idle"]
  /\ frame = [r \in Slots |-> NoFrame]
  /\ fetches = [r \in Slots |-> <<>>]
  /\ responses = [r \in Slots |-> <<>>]
  /\ call = NoCall

\* A request arrives at an idle slot.
Arrives(r, method, body) ==
  /\ pc[r] = "idle"
  /\ call = NoCall
  /\ request' = [request EXCEPT ![r] = [method |-> method, body |-> body]]

\* The JSON-RPC method of a decoded body is m.
MethodIs(body, m) == body # NoBody /\ Get(body, "method") = Atom(m)

\* req.method === 'OPTIONS': 200, no body.
Options(r) ==
  /\ pc[r] = "idle"
  /\ \E body \in {NoBody, [method |-> Atom("tools/call"), id |-> Num(7)]} :
    /\ Arrives(r, "OPTIONS", body)
    /\ Sent(r, [status |-> 200])
    /\ UNCHANGED <<token, frame, fetches, call>>

\* req.method !== 'POST': 405.
MethodNotAllowed(r) ==
  /\ pc[r] = "idle"
  /\ \E method \in {"GET", "DELETE"},
     body \in {NoBody, [method |-> Atom("tools/call"), id |-> Num(7)]} :
    /\ Arrives(r, method, body)
    /\ Sent(r, methodNotAllowed)
    /\ UNCHANGED <<token, frame, fetches, call>>

\* A POST without a decoded body: destructuring req.body throws inside try.
BodyMissing(r) ==
  /\ Arrives(r, "POST", NoBody)
  /\ Sent(r, caught(Msg("Cannot destructure property 'method' of 'req.body' as it is undefined.",
                        <<>>), NoBody))
  /\ UNCHANGED <<token, frame, fetches, call>>

\* initialize advertising the tools capability only when the credential is
\* configured.
InitializeByCredential(r) ==
  /\ pc[r] = "idle"
  /\ \E body \in Bodies :
    /\ MethodIs(body, "initialize")
    /\ Arrives(r, "POST", body)
    /\ Sent(r, [status |-> 200,
                body |-> RpcResult([protocolVersion |-> MCP_VERSION,
                                    capabilities |->
                                      IF token THEN [tools |-> EmptyMap] ELSE EmptyMap,
                                    serverInfo |-> [name |-> SERVER_NAME,
                                                    version |-> SERVER_VERSION]],
                                   Get(body, "id"))])
    /\ UNCHANGED <<token, frame, fetches, call>>

\* case 'initialize'
Initialize(r) ==
  /\ pc[r] = "idle"
  /\ \E body \in Bodies :
    /\ MethodIs(body, "initialize")
    /\ Arrives(r, "POST", body)
    /\ Sent(r, [status |-> 200,
                body |-> RpcResult([protocolVersion |-> MCP_VERSION,
                                    capabilities |-> [tools |-> EmptyMap],
                                    serverInfo |-> [name |-> SERVER_NAME,
                                                    version |-> SERVER_VERSION]],
                                   Get(body, "id"))])
    /\ UNCHANGED <<token, frame, fetches, call>>

\* tools/list answering with an empty catalog while the credential is not
\* configured.
ToolsListByCredential(r) ==
  /\ pc[r] = "idle"
  /\ \E body \in Bodies :
    /\ MethodIs(body, "tools/list")
    /\ Arrives(r, "POST", body)
    /\ Sent(r, [status |-> 200,
                body |-> RpcResult([tools |-> IF token THEN TOOLS ELSE <<>>],
                                   Get(body, "id"))])
    /\ UNCHANGED <<token, frame, fetches, call>>

\* case 'tools/list'
ToolsList(r) ==
  /\ pc[r] = "idle"
  /\ \E body \in Bodies :
    /\ MethodIs(body, "tools/list")
    /\ Arrives(r, "POST", body)
    /\ Sent(r, [status |-> 200, body |-> RpcResult([tools |-> TOOLS], Get(body, "id"))])
    /\ UNCHANGED <<token, frame, fetches, call>>

\* default: -32601
MethodNotFound(r) ==
  /\ pc[r] = "idle"
  /\ \E body \in Bodies :
    /\ body # NoBody
    /\ \A m \in {"initialize", "tools/list", "tools/call"} : ~MethodIs(body, m)
    /\ Arrives(r, "POST", body)
    /\ Sent(r, methodNotFound(IF Get(body, "method") = Undefined
                               THEN "undefined" ELSE body.method.v,
                               Get(body, "id")))
    /\ UNCHANGED <<token, frame, fetches, call>>

\* The name the switch of handleTool sees: params.name, or undefined.
nameOf(params) ==
  IF Field(params, "name") = Undefined THEN "undefined" ELSE Field(params, "name").v

\* params.arguments || {}
argumentsOf(params) ==
  IF Truthy(Field(params, "arguments")) THEN Field(params, "arguments").v ELSE EmptyMap

\* case 'tools/call' with params missing: reading params.name throws.
ToolsCallNoParams(r) ==
  /\ pc[r] = "idle"
  /\ \E body \in Bodies :
    /\ MethodIs(body, "tools/call")
    /\ Get(body, "params") = Undefined
    /\ Arrives(r, "POST", body)
    /\ Sent(r, caught(Msg("Cannot read properties of undefined (reading 'name')", <<>>),
                      body))
    /\ UNCHANGED <<token, frame, fetches, call>>

\* case 'tools/call' for a sequential tool (or an unknown name): handleTool
\* runs up to its first await, or to the response when it throws first.
ToolsCall(r) ==
  /\ pc[r] = "idle"
  /\ \E body \in Bodies :
    /\ MethodIs(body, "tools/call")
    /\ Get(body, "params") # Undefined
    /\ nameOf(body.params) # "hubspot_get_engagements"
    /\ Arrives(r, "POST", body)
    /\ Advance(r, body, nameOf(body.params), argumentsOf(body.params), <<>>, fetches[r])
    /\ UNCHANGED <<token, call>>

\* The fetch log with entry i marked as settled.
Settled(fs, i, outcome) ==
  [fs EXCEPT ![i] =
     IF outcome.kind = "ok"
     THEN [req |-> @.req, state |-> "ok", json |-> outcome.json]
     ELSE [req |-> @.req, state |-> "failed"]]

\* The slot's log with its last call settled; a failed call keeps the error
\* hubspot threw.
SettledLast(fs, res) ==
  [fs EXCEPT ![Len(fs)] =
     IF res.kind = "throw"
     THEN [req |-> @.req, state |-> "failed", error |-> res.message]
     ELSE [req |-> @.req, state |-> "ok"]]

\* The pending fetch settles, and a failure of any call after the first is
\* swallowed: handleTool runs on as if the call had returned null.
FetchSettlesSwallowing(r) ==
  /\ pc[r] = "tool"
  /\ LET i == Len(fetches[r])
         fr == frame[r]
     IN \E outcome \in Outcomes(fetches[r][i].req) :
          LET res == hubspot(fetches[r][i].req.method, outcome)
              fs == SettledLast(fetches[r], res)
          IN IF res.kind = "throw" /\ i = 1
             THEN /\ Sent(r, caught(res.message, request[r].body))
                  /\ fetches' = [fetches EXCEPT ![r] = fs]
                  /\ UNCHANGED frame
             ELSE Advance(r, request[r].body, fr.name, fr.args,
                          Append(fr.replies, IF res.kind = "throw" THEN Null ELSE res.value),
                          fs)
  /\ UNCHANGED <<token, request, call>>

\* The pending fetch settles, and the first call of an invocation is issued
\* once more when it failed.
FetchSettlesRetrying(r) ==
  /\ pc[r] = "tool"
  /\ LET i == Len(fetches[r])
         fr == frame[r]
     IN \E outcome \in Outcomes(fetches[r][i].req) :
          LET res == hubspot(fetches[r][i].req.method, outcome)
              fs == SettledLast(fetches[r], res)
          IN IF res.kind = "throw" /\ i = 1
             THEN /\ fetches' = [fetches EXCEPT ![r] =
                                   Append(fs, [req |-> fs[i].req, state |-> "pending"])]
                  /\ UNCHANGED <<frame, pc, responses>>
             ELSE IF res.kind = "throw"
             THEN /\ Sent(r, caught(res.message, request[r].body))
                  /\ fetches' = [fetches EXCEPT ![r] = fs]
                  /\ UNCHANGED frame
             ELSE Advance(r, request[r].body, fr.name, fr.args,
                          Append(fr.replies, res.value), fs)
  /\ UNCHANGED <<token, request, call>>

\* The pending fetch of a sequential tool settles, hubspot returns or
\* throws, and handleTool runs on to its next await or to the response.
FetchSettles(r) ==
  /\ pc[r] = "tool"
  /\ LET i == Len(fetches[r])
         fr == frame[r]
     IN \E outcome \in Outcomes(fetches[r][i].req) :
          LET res == hubspot(fetches[r][i].req.method, outcome)
              fs == SettledLast(fetches[r], res)
          IN IF res.kind = "throw"
             THEN /\ Sent(r, caught(res.message, request[r].body))
                  /\ fetches' = [fetches EXCEPT ![r] = fs]
                  /\ UNCHANGED frame
             ELSE Advance(r, request[r].body, fr.name, fr.args,
                          Append(fr.replies, res.value), fs)
  /\ UNCHANGED <<token, request, call>>

\* engagements[type] = value
Assign(engagements, type, value) ==
  [k \in DOMAIN engagements \cup {type} |-> IF k = type THEN value ELSE engagements[k]]

\* case 'tools/call' for hubspot_get_engagements: every per-type subtask is
\* started. With the credential each issues its association lookup; without
\* it hubspot throws inside the subtask's try and the catch stores [].
\* A subtask keeps the calls it issued, in order, in its own record.
\* bodies are the request bodies the invocation may carry.
EngagementsCallOf(r, bodies) ==
  /\ pc[r] = "idle"
  /\ \E body \in bodies :
       /\ MethodIs(body, "tools/call")
       /\ Get(body, "params") # Undefined
       /\ nameOf(body.params) = "hubspot_get_engagements"
       /\ Arrives(r, "POST", body)
       /\ LET args == argumentsOf(body.params)
              types == typesToFetch(args)
              empties == [ty \in {types[j] : j \in 1..Len(types)} |-> Arr(<<>>)]
          IN frame' = [frame EXCEPT ![r] =
                 [name |-> "hubspot_get_engagements", args |-> args, replies |-> <<>>,
                  subtasks |->
                    [j \in 1..Len(types) |->
                       IF token
                       THEN [type |-> types[j], at |-> "lookup",
                             calls |-> <<[req |-> engagementLookup(args, types[j]),
                                          state |-> "pending"]>>]
                       ELSE [type |-> types[j], at |-> "done", calls |-> <<>>]],
                  engagements |-> IF token THEN EmptyMap ELSE empties]]
  /\ pc' = [pc EXCEPT ![r] = "fanout"]
  /\ UNCHANGED <<token, fetches, responses, call>>

EngagementsCall(r) == EngagementsCallOf(r, Bodies)

\* The subtask writing into an engagements map that every invocation in its
\* fan-out shares.
SubtaskSettlesShared(r, j) ==
  /\ pc[r] = "fanout"
  /\ j \in 1..Len(frame[r].subtasks)
  /\ frame[r].subtasks[j].at # "done"
  /\ LET fr == frame[r]
         sub == fr.subtasks[j]
         i == Len(sub.calls)
     IN \E outcome \in Outcomes(sub.calls[i].req) :
          LET res == hubspot(sub.calls[i].req.method, outcome)
              cs == Settled(sub.calls, i, outcome)
              next == IF res.kind = "throw" THEN Return(Arr(<<>>))
                      ELSE IF sub.at = "lookup"
                      THEN engagementAfterLookup(fr.args, sub.type, res.value)
                      ELSE Return(engagementAfterBatch(res.value))
          IN IF next.kind = "return"
             THEN frame' =
                    [s \in DOMAIN frame |->
                       IF s = r
                       THEN [fr EXCEPT !.subtasks[j] = [type |-> sub.type, at |-> "done",
                                                       calls |-> cs],
                                      !.engagements = Assign(@, sub.type, next.value)]
                       ELSE IF pc[s] = "fanout"
                       THEN [frame[s] EXCEPT !.engagements = Assign(@, sub.type, next.value)]
                       ELSE frame[s]]
             ELSE frame' = [frame EXCEPT ![r] =
                       [fr EXCEPT !.subtasks[j] =
                          [type |-> sub.type, at |-> "batch",
                           calls |-> Append(cs, [req |-> next, state |-> "pending"])]]]
  /\ UNCHANGED <<token, request, pc, fetches, responses, call>>

\* The subtask without its try and catch: a failed call rejects Promise.all
\* and the failure reaches the catch block of handler.
SubtaskSettlesUncaught(r, j) ==
  /\ pc[r] = "fanout"
  /\ j \in 1..Len(frame[r].subtasks)
  /\ frame[r].subtasks[j].at # "done"
  /\ LET fr == frame[r]
         sub == fr.subtasks[j]
         i == Len(sub.calls)
     IN \E outcome \in Outcomes(sub.calls[i].req) :
          LET res == hubspot(sub.calls[i].req.method, outcome)
              cs == Settled(sub.calls, i, outcome)
              next == IF res.kind = "throw" THEN res
                      ELSE IF sub.at = "lookup"
                      THEN engagementAfterLookup(fr.args, sub.type, res.value)
                      ELSE Return(engagementAfterBatch(res.value))
          IN CASE next.kind = "throw" ->
                    /\ frame' = [frame EXCEPT ![r] =
                          [fr EXCEPT !.subtasks[j] = [type |-> sub.type, at |-> "done",
                                                      calls |-> cs]]]
                    /\ Sent(r, caught(res.message, request[r].body))
               [] next.kind = "return" ->
                    /\ frame' = [frame EXCEPT ![r] =
                          [fr EXCEPT !.subtasks[j] = [type |-> sub.type, at |-> "done",
                                                      calls |-> cs],
                                     !.engagements = Assign(@, sub.type, next.value)]]
                    /\ UNCHANGED <<pc, responses>>
               [] OTHER ->
                    /\ frame' = [frame EXCEPT ![r] =
                          [fr EXCEPT !.subtasks[j] =
                             [type |-> sub.type, at |-> "batch",
                              calls |-> Append(cs, [req |-> next, state |-> "pending"])]]]
                    /\ UNCHANGED <<pc, responses>>
  /\ UNCHANGED <<token, request, fetches, call>>

\* The pending fetch of subtask j settles and the subtask runs on: to the
\* batch read, or to its end with engagements[type] assigned.
SubtaskSettles(r, j) ==
  /\ pc[r] = "fanout"
  /\ j \in 1..Len(frame[r].subtasks)
  /\ frame[r].subtasks[j].at # "done"
  /\ LET fr == frame[r]
         sub == fr.subtasks[j]
         i == Len(sub.calls)
     IN \E outcome \in Outcomes(sub.calls[i].req) :
          LET res == hubspot(sub.calls[i].req.method, outcome)
              cs == Settled(sub.calls, i, outcome)
              next == IF res.kind = "throw" THEN Return(Arr(<<>>))
                      ELSE IF sub.at = "lookup"
                      THEN engagementAfterLookup(fr.args, sub.type, res.value)
                      ELSE Return(engagementAfterBatch(res.value))
          IN IF next.kind = "return"
             THEN frame' = [frame EXCEPT ![r] =
                       [fr EXCEPT !.subtasks[j] = [type |-> sub.type, at |-> "done",
                                                   calls |-> cs],
                                  !.engagements = Assign(@, sub.type, next.value)]]
             ELSE frame' = [frame EXCEPT ![r] =
                       [fr EXCEPT !.subtasks[j] =
                          [type |-> sub.type, at |-> "batch",
                           calls |-> Append(cs, [req |-> next, state |-> "pending"])]]]
  /\ UNCHANGED <<token, request, pc, fetches, responses, call>>

\* The map returned without waiting for the subtasks.
FanInEarly(r) ==
  /\ pc[r] = "fanout"
  /\ Sent(r, [status |-> 200,
              body |-> RpcResult(toolContent(engagementsResult(frame[r].args,
                                                               frame[r].engagements)),
                                 Get(request[r].body, "id"))])
  /\ UNCHANGED <<token, request, frame, fetches, call>>

\* Promise.all resolved: every subtask ended. handleTool returns the map.
FanIn(r) ==
  /\ pc[r] = "fanout"
  /\ \A j \in 1..Len(frame[r].subtasks) : frame[r].subtasks[j].at = "done"
  /\ Sent(r, [status |-> 200,
              body |-> RpcResult(toolContent(engagementsResult(frame[r].args,
                                                               frame[r].engagements)),
                                 Get(request[r].body, "id"))])
  /\ UNCHANGED <<token, request, frame, fetches, call>>

\* The invocation ended; the slot takes the next request. Nothing is kept.
Finish(r) ==
  /\ pc[r] = "done"
  /\ request' = [request EXCEPT ![r] = NoRequest]
  /\ pc' = [pc EXCEPT ![r] = "idle"]
  /\ frame' = [frame EXCEPT ![r] = NoFrame]
  /\ fetches' = [fetches EXCEPT ![r] = <<>>]
  /\ responses' = [responses EXCEPT ![r] = <<>>]
  /\ UNCHANGED <<token, call>>

\* ------------------------------------- the pure functions, applied directly
Quiet == call = NoCall /\ \A r \in Slots : pc[r] = "idle"

CallTruncateProperties ==
  /\ Quiet
  /\ \E obj \in PropBags, maxLength \in MaxLengths :
       call' = [fn |-> "truncateProperties", obj |-> obj, maxLength |-> maxLength,
                ret |-> truncateProperties(obj, maxLength)]
  /\ UNCHANGED <<token, request, pc, frame, fetches, responses>>

CallCompactResult ==
  /\ Quiet
  /\ \E item \in CompactItems, options \in CompactOptions :
       call' = [fn |-> "compactResult", item |-> item, options |-> options,
                ret |-> compactResult(item, options)]
  /\ UNCHANGED <<token, request, pc, frame, fetches, responses>>

CallFilterResults ==
  /\ Quiet
  /\ \E results \in SeqsUpTo(FilterItems, MaxPage), options \in FilterOptions :
       call' = [fn |-> "filterResults", results |-> results, options |-> options,
                ret |-> filterResults(results, [k \in DOMAIN options |-> options[k].v])]
  /\ UNCHANGED <<token, request, pc, frame, fetches, responses>>

CallReturns ==
  /\ call # NoCall
  /\ call' = NoCall
  /\ UNCHANGED <<token, request, pc, frame, fetches, responses>>

Next ==
  \/ \E r \in Slots :
       \/ Options(r)
       \/ MethodNotAllowed(r)
       \/ BodyMissing(r)
       \/ Initialize(r)
       \/ ToolsList(r)
       \/ MethodNotFound(r)
       \/ ToolsCallNoParams(r)
       \/ ToolsCall(r)
       \/ FetchSettles(r)
       \/ EngagementsCall(r)
       \/ \E j \in 1..Len(allTypes) : SubtaskSettles(r, j)
       \/ FanIn(r)
       \/ Finish(r)
  \/ CallTruncateProperties
  \/ CallCompactResult
  \/ CallFilterResults
  \/ CallReturns

Spec == Init /\ [][Next]_vars

\* ------------------------------------------------------------ properties
\* The slot handled its request to the end.
Done(r) == pc[r] = "done"

\* The response the slot sent.
Resp(r) == responses[r][1]

\* The slot's request is a POST carrying a tools/call envelope.
IsToolsCall(r) ==
  request[r].method = "POST" /\ MethodIs(request[r].body, "tools/call")

\* The slot's request is a tools/call whose params are present.
IsDispatched(r) == IsToolsCall(r) /\ Get(request[r].body, "params") # Undefined

\* The number of fetch calls the invocation issued, subtasks included.
NetworkCalls(r) ==
  Len(fetches[r])
  + (IF frame[r] = NoFrame THEN 0
     ELSE Cardinality({c \in (1..Len(frame[r].subtasks)) \X (1..2) :
                         c[2] <= Len(frame[r].subtasks[c[1]].calls)}))

\* A call of one of the slot's subtasks failed.
SubtaskCallFailed(r) ==
  /\ frame[r] # NoFrame
  /\ \E j \in 1..Len(frame[r].subtasks) :
       \E i \in 1..Len(frame[r].subtasks[j].calls) :
         frame[r].subtasks[j].calls[i].state = "failed"

\* The response is a JSON-RPC error with this code.
IsRpcError(resp, code) ==
  /\ "body" \in DOMAIN resp
  /\ "error" \in DOMAIN resp.body
  /\ resp.body.error.code = code

\* The response echoes the request's id (no id key when the request had none).
EchoesId(r) ==
  IF Get(request[r].body, "id") = Undefined
  THEN "id" \notin DOMAIN Resp(r).body
  ELSE "id" \in DOMAIN Resp(r).body /\ Resp(r).body.id = request[r].body.id

NoFailure == [template |-> "none", parts |-> <<>>]

\* The failure that reaches the catch block of handler for a tools/call that
\* ended: the one reading params.name throws, the one hubspot threw for the
\* last call of a sequential tool, the one the tool's own code throws, or the
\* missing credential. NoFailure when none did.
Propagated(r) ==
  IF ~IsDispatched(r)
  THEN Msg("Cannot read properties of undefined (reading 'name')", <<>>)
  ELSE IF frame[r].name = "hubspot_get_engagements" THEN NoFailure
  ELSE LET n == Len(fetches[r])
           step == handleToolStep(frame[r].name, frame[r].args, frame[r].replies)
       IN IF n > 0 /\ fetches[r][n].state = "failed" THEN fetches[r][n].error
          ELSE IF step.kind = "throw" THEN step.message
          ELSE IF step.kind = "fetch" /\ ~token THEN NotConfigured
          ELSE NoFailure

\* A failure was raised while the tools/call was handled: one that reached
\* the catch block, or one of a remote call inside a subtask (a failed call,
\* or the credential check of a subtask that was started).
FailureRaised(r) ==
  \/ Propagated(r) # NoFailure
  \/ SubtaskCallFailed(r)
  \/ (~token /\ frame[r] # NoFrame /\ Len(frame[r].subtasks) > 0)

\* C1 as stated: whatever failure the dispatcher or a remote call raises
\* during a tools/call, the response is a JSON-RPC error -32603 that echoes
\* the request's id.
C1_AnyFailureIsRpcError ==
  \A r \in Slots :
    (Done(r) /\ IsToolsCall(r) /\ FailureRaised(r))
      => /\ Len(responses[r]) = 1
         /\ IsRpcError(Resp(r), -32603)
         /\ EchoesId(r)

\* C1 amended: every failure that propagates out of the dispatcher to the
\* catch block of handler (missing params, unknown tool, validation, missing
\* credential or failed remote call of a sequential tool) is answered with
\* HTTP 200 and a JSON-RPC error -32603 whose message is that failure's
\* message and whose id is the request's id; exactly one response is sent.
\* Failures of remote calls inside a subtask of hubspot_get_engagements do
\* not propagate: the subtask catches them.
C1_PropagatedFailureIsRpcError ==
  \A r \in Slots :
    (Done(r) /\ IsToolsCall(r) /\ Propagated(r) # NoFailure)
      => /\ Len(responses[r]) = 1
         /\ Resp(r).status = 200
         /\ IsRpcError(Resp(r), -32603)
         /\ Resp(r).body.error.message = Propagated(r)
         /\ EchoesId(r)

\* A tools/call with an id whose remote call got a non-2xx answer ended.
C1_Witness ==
  \E r \in Slots :
    /\ Done(r) /\ IsDispatched(r)
    /\ Get(request[r].body, "id") = Num(7)
    /\ Len(fetches[r]) > 0
    /\ fetches[r][Len(fetches[r])].state = "failed"
    /\ fetches[r][Len(fetches[r])].error.template = "HubSpot API {}: {}"

\* C2: a tools/call whose name is not in the catalog is answered with HTTP
\* 200 and a JSON-RPC error -32603 whose message holds the name, and issues
\* no remote call; a name in the catalog never gets the unknown-tool error.
C2_UnknownToolIffNotInCatalog ==
  \A r \in Slots :
    (Done(r) /\ IsDispatched(r))
      => LET name == nameOf(request[r].body.params)
             unknown == /\ IsRpcError(Resp(r), -32603)
                        /\ Resp(r).body.error.message = Msg("Unknown tool: {}", <<name>>)
         IN IF name \in ToolNames
            THEN ~unknown
            ELSE unknown /\ Resp(r).status = 200 /\ NetworkCalls(r) = 0

\* With the credential set, a call of hubspot_log_call ended.
C2_Witness ==
  \E r \in Slots :
    /\ Done(r) /\ IsDispatched(r) /\ token
    /\ nameOf(request[r].body.params) = "hubspot_log_call"

\* The JSON-RPC method of the slot's POST body is none of the three routed.
UnroutedMethod(r) ==
  /\ request[r].method = "POST"
  /\ request[r].body # NoBody
  /\ \A m \in {"initialize", "tools/list", "tools/call"} : ~MethodIs(request[r].body, m)

\* C3: a POST whose JSON-RPC method is none of initialize, tools/list and
\* tools/call is answered with a JSON-RPC error -32601 that echoes the id;
\* the dispatcher is not entered and no remote call is issued.
C3_MethodNotFound ==
  \A r \in Slots :
    (Done(r) /\ UnroutedMethod(r))
      => /\ Len(responses[r]) = 1
         /\ IsRpcError(Resp(r), -32601)
         /\ EchoesId(r)
         /\ frame[r] = NoFrame
         /\ NetworkCalls(r) = 0

\* A request with method "ping" and an id ended.
C3_Witness ==
  \E r \in Slots :
    /\ Done(r) /\ UnroutedMethod(r)
    /\ Get(request[r].body, "method") = Atom("ping")
    /\ Get(request[r].body, "id") = Num(7)

\* C4: every POST is answered with HTTP 200; a method other than POST and
\* OPTIONS is answered with 405, OPTIONS with 200, and neither enters the
\* dispatcher or issues a remote call.
C4_HttpStatus ==
  \A r \in Slots :
    /\ (Done(r) /\ request[r].method = "POST")
         => (Len(responses[r]) = 1 /\ Resp(r).status = 200)
    /\ (Done(r) /\ request[r].method \notin {"POST", "OPTIONS"})
         => (Resp(r).status = 405 /\ frame[r] = NoFrame /\ NetworkCalls(r) = 0)
    /\ (Done(r) /\ request[r].method = "OPTIONS")
         => (Resp(r).status = 200 /\ frame[r] = NoFrame /\ NetworkCalls(r) = 0)
    /\ (frame[r] # NoFrame \/ NetworkCalls(r) > 0) => request[r].method = "POST"

\* A GET carrying a tools/call envelope ended, and so did a POST whose
\* tool failed at the remote system.
C4_Witness ==
  \E r \in Slots :
    /\ Done(r)
    /\ \/ request[r].method = "GET" /\ request[r].body # NoBody
       \/ /\ request[r].method = "POST"
          /\ Len(fetches[r]) > 0
          /\ fetches[r][Len(fetches[r])].state = "failed"

\* The tool the slot called reaches a remote call with these arguments.
ContactsRemote(r) ==
  LET name == nameOf(request[r].body.params)
      args == argumentsOf(request[r].body.params)
  IN IF name = "hubspot_get_engagements"
     THEN Len(typesToFetch(args)) > 0
     ELSE handleToolStep(name, args, <<>>).kind = "fetch"

\* C5: without the credential, a tool that contacts the remote system issues
\* no network call and its tools/call ends in a JSON-RPC error carrying the
\* configuration failure's message.
C5_MissingCredentialIsFatal ==
  \A r \in Slots :
    (Done(r) /\ IsDispatched(r) /\ ~token /\ ContactsRemote(r))
      => /\ NetworkCalls(r) = 0
         /\ IsRpcError(Resp(r), -32603)
         /\ Resp(r).body.error.message = NotConfigured

\* ---------------------------------------------- properties of compaction
\* The item carries a property bag compactResult truncates.
HasProperties(item) ==
  Truthy(Get(item, "properties")) /\ TypeOf(Get(item, "properties")) = "object"

\* maxLength is a value of the data model: a non-negative integer or unbounded.
IsMaxLength(m) == m.t = "Infinity" \/ (m.t = "number" /\ m.v >= 0)

\* The value the truncation rule gives for v: the first maxLength characters
\* and the marker for a longer string, v itself otherwise.
TruncatedTo(v, maxLength) ==
  IF v.t = "string" /\ maxLength.t = "number" /\ Len(v.v) > maxLength.v
  THEN Str(SubSeq(v.v, 1, maxLength.v) \o TruncationMarker)
  ELSE v

\* The bag `out` is the bag `in` with the truncation rule applied per key.
FollowsRule(in, out, maxLength) ==
  /\ DOMAIN out = DOMAIN in
  /\ \A k \in DOMAIN in : out[k] = TruncatedTo(in[k], maxLength)

\* compactResult was applied directly with maxPropertyLength given as m.
CompactedWith(m) ==
  /\ call.fn = "compactResult"
  /\ HasProperties(call.item)
  /\ Get(call.options, "maxPropertyLength") = m

\* C6: for every property map and every maxPropertyLength, a string of at
\* most maxPropertyLength characters is returned unchanged, a longer one as
\* its first maxPropertyLength characters followed by the marker, a
\* non-string unchanged, and the key set is kept; unbounded changes nothing.
C6_TruncationRule ==
  /\ (call.fn = "truncateProperties" /\ IsMaxLength(call.maxLength))
       => /\ FollowsRule(call.obj, call.ret, call.maxLength)
          /\ call.maxLength = Infinity => call.ret = call.obj
  /\ \A m \in {mm \in MaxLengths : IsMaxLength(mm)} :
       CompactedWith(m)
         => /\ FollowsRule(call.item.properties.v, call.ret.properties.v, m)
            /\ m = Infinity => call.ret.properties = call.item.properties

\* truncateProperties cut a string of MaxStrLen characters to two and the
\* marker next to a number it left alone.
C6_Witness ==
  /\ call.fn = "truncateProperties"
  /\ call.maxLength = Num(2)
  /\ call.obj = [company |-> Str(Long("a")), notes |-> Num(7)]
  /\ call.ret = [company |-> Str(<<"a", "a">> \o TruncationMarker), notes |-> Num(7)]

\* C7 as stated: every string property value of an object the compactor
\* emits has at most maxPropertyLength characters, for a bounded
\* maxPropertyLength.
C7_AtMostMaxLength ==
  \A m \in {mm \in MaxLengths : mm.t = "number" /\ mm.v >= 0} :
    CompactedWith(m)
      => \A k \in DOMAIN call.ret.properties.v :
           LET w == call.ret.properties.v[k]
           IN w.t = "string" => Len(w.v) <= m.v

\* C7 amended: every string property value the compactor emits is either
\* the source value, of at most maxPropertyLength characters, or has exactly
\* maxPropertyLength characters followed by the 14 characters of the marker.
C7_AtMostMaxLengthPlusMarker ==
  \A m \in {mm \in MaxLengths : mm.t = "number" /\ mm.v >= 0} :
    CompactedWith(m)
      => \A k \in DOMAIN call.ret.properties.v :
           LET w == call.ret.properties.v[k]
               v == call.item.properties.v[k]
           IN w.t = "string"
                => \/ w = v /\ Len(v.v) <= m.v
                   \/ /\ v.t = "string" /\ Len(v.v) > m.v
                      /\ Len(TruncationMarker) = 14
                      /\ Len(w.v) = m.v + 14
                      /\ SubSeq(w.v, m.v + 1, m.v + 14) = TruncationMarker

\* compactResult emitted a value of 15 characters for maxPropertyLength 1.
C7_Witness ==
  /\ CompactedWith(Num(1))
  /\ Get(call.item.properties.v, "company") = Str(Long("a"))
  /\ Len(call.ret.properties.v.company.v) = 15

\* One of the four tools that compact a page was called with
\* maxPropertyLength 0 and answered with a result.
ZeroThroughTool(r) ==
  /\ Done(r) /\ IsDispatched(r)
  /\ frame[r].name \in {"hubspot_list_contacts", "hubspot_search_contacts",
                        "hubspot_list_companies", "hubspot_search_companies"}
  /\ Get(frame[r].args, "maxPropertyLength") = Num(0)
  /\ Len(frame[r].replies) = 1
  /\ "result" \in DOMAIN Resp(r).body

\* The rows of the page the tool's response carries.
OutRows(r) == Rows(Resp(r).body.result.content[1].text)

\* Every row of the response has the properties of a row the remote system
\* returned, value for value.
OutputEqualsRemote(r) ==
  LET src == Rows(frame[r].replies[1])
      out == OutRows(r)
  IN /\ Len(out) <= Len(src)
     /\ frame[r].name \in {"hubspot_list_companies", "hubspot_search_companies"}
          => Len(out) = Len(src)
     /\ \A i \in 1..Len(out) :
          \E j \in 1..Len(src) :
            /\ Get(out[i], "id") = Get(src[j], "id")
            /\ Get(out[i], "properties") = Get(src[j], "properties")

C9_MetadataIffCarried ==
  call.fn = "compactResult"
    => /\ "id" \in DOMAIN call.ret
       /\ \A f \in {"createdAt", "updatedAt", "archived", "url"} :
            f \in DOMAIN call.ret
              <=> (Truthy(Get(call.options, "includeMetadata")) /\ f \in DOMAIN call.item)

\* C9 amended: createdAt, updatedAt and url are in the compacted object
\* exactly when includeMetadata is true and the source's value is truthy,
\* archived exactly when includeMetadata is true and the source has the
\* field; a field present has the source's value, and id is the source's id.
C9_MetadataIffTruthy ==
  call.fn = "compactResult"
    => LET on == Truthy(Get(call.options, "includeMetadata"))
       IN /\ "id" \in DOMAIN call.ret
          /\ call.ret.id = Get(call.item, "id")
          /\ \A f \in {"createdAt", "updatedAt", "url"} :
               f \in DOMAIN call.ret <=> (on /\ Truthy(Get(call.item, f)))
          /\ "archived" \in DOMAIN call.ret <=> (on /\ "archived" \in DOMAIN call.item)
          /\ \A f \in {"createdAt", "updatedAt", "archived", "url"} :
               f \in DOMAIN call.ret => call.ret[f] = call.item[f]

\* With includeMetadata true, compactResult kept archived: false and left
\* out url: null.
C9_Witness ==
  /\ call.fn = "compactResult"
  /\ Get(call.options, "includeMetadata") = Bool(TRUE)
  /\ Get(call.item, "archived") = Bool(FALSE)
  /\ Get(call.item, "url") = Null
  /\ "archived" \in DOMAIN call.ret
  /\ "url" \notin DOMAIN call.ret

\* The exclusion list is absent or empty.
NoExclusion(options, k) == Get(options, k) \in {Undefined, Arr(<<>>)}

\* C10: with both exclusion lists empty the filter returns the input list
\* unchanged, same elements in the same order, and an excluded count of 0.
C10_EmptyExclusionsKeepAll ==
  (/\ call.fn = "filterResults"
   /\ NoExclusion(call.options, "excludeCompanies")
   /\ NoExclusion(call.options, "excludeJobTitles"))
    => call.ret.results = call.results /\ call.ret.excluded = 0

\* filterResults returned a list of MaxPage items, one of them without
\* properties, for two empty exclusion lists.
C10_Witness ==
  /\ call.fn = "filterResults"
  /\ Get(call.options, "excludeCompanies") = Arr(<<>>)
  /\ Get(call.options, "excludeJobTitles") = Undefined
  /\ Len(call.results) = MaxPage
  /\ \E i \in 1..Len(call.results) : ~Truthy(Get(call.results[i], "properties"))
  /\ call.ret.results = call.results

\* ------------------------------------------------ properties of the filter
\* The terms of one exclusion list of the options (none when absent).
TermsOf(options, k) == IF Get(options, k) = Undefined THEN <<>> ELSE options[k].v

\* The value is present (not missing, null or empty) and its text,
\* lower-cased, contains a lower-cased term of the list as a substring.
ContainsTerm(v, terms) ==
  /\ Truthy(v)
  /\ \E i \in 1..Len(terms) :
       includes(toLowerCase(StringOf(v)), toLowerCase(terms[i]))

\* The item's company contains a term of excludeCompanies or its jobtitle a
\* term of excludeJobTitles.
MatchesExclusion(item, options) ==
  LET props == Get(item, "properties")
  IN \/ ContainsTerm(Field(props, "company"), TermsOf(options, "excludeCompanies"))
     \/ ContainsTerm(Field(props, "jobtitle"), TermsOf(options, "excludeJobTitles"))

\* The item has no property map, or neither a company nor a jobtitle.
NothingToMatch(item) ==
  LET props == Get(item, "properties")
  IN ~Truthy(Field(props, "company")) /\ ~Truthy(Field(props, "jobtitle"))

\* How often x occurs in the sequence.
Occurrences(seq, x) == Cardinality({i \in 1..Len(seq) : seq[i] = x})

\* C11: an object whose company or jobtitle contains, case-insensitively, a
\* term of the respective exclusion list is absent from the kept list, and
\* an object without company and jobtitle (or without a property map) is
\* kept, as often as it occurs in the input.
C11_MatchingDroppedMissingKept ==
  call.fn = "filterResults"
    => \A i \in 1..Len(call.results) :
         LET item == call.results[i]
         IN /\ MatchesExclusion(item, call.options)
                 => Occurrences(call.ret.results, item) = 0
            /\ NothingToMatch(item)
                 => Occurrences(call.ret.results, item) = Occurrences(call.results, item)

\* The filter dropped the contact of company "aB" for the term "B" and kept
\* the object without a property map.
C11_Witness ==
  /\ call.fn = "filterResults"
  /\ Get(call.options, "excludeCompanies") = Arr(<<<<"B">>, <<"a", "a">>>>)
  /\ Len(call.results) = 2
  /\ Get(call.results[1], "id") = Str(<<"1">>)
  /\ Get(call.results[2], "id") = Str(<<"4">>)
  /\ call.ret.results = <<call.results[2]>>

\* ------------------------------------- properties of the contact tools
\* The slot called a contact list or search tool, the page arrived and the
\* response is a result.
ContactPageDone(r) ==
  /\ Done(r) /\ IsDispatched(r)
  /\ frame[r].name \in {"hubspot_list_contacts", "hubspot_search_contacts"}
  /\ Len(frame[r].replies) = 1
  /\ "result" \in DOMAIN Resp(r).body

\* The exclusion lists the arguments of a contact tool carry.
ExclusionsOf(args) ==
  [k \in {"excludeCompanies", "excludeJobTitles"} |->
     IF IsArray(Get(args, k)) THEN Arr(Terms(args[k])) ELSE Arr(<<>>)]

\* The positions of the remote page whose contact matches an exclusion term,
\* decided on the values the remote system returned.
ExcludedRows(r) ==
  LET src == Rows(frame[r].replies[1])
  IN {i \in 1..Len(src) : MatchesExclusion(src[i], ExclusionsOf(frame[r].args))}

\* The object the tool's response carries as its text.
OutText(r) == Resp(r).body.result.content[1].text

\* C12: for the contact list and search tools the length of results plus the
\* number of excluded contacts is the length of the remote page; _meta is
\* present with excluded equal to that number exactly when it is positive.
C12_ExcludedCountAccounts ==
  \A r \in Slots :
    ContactPageDone(r)
      => LET n == Cardinality(ExcludedRows(r))
         IN /\ Len(OutRows(r)) + n = Len(Rows(frame[r].replies[1]))
            /\ n > 0 => Field(Field(OutText(r), "_meta"), "excluded") = Num(n)
            /\ n = 0 => Field(OutText(r), "_meta") = Undefined

\* A page of two contacts of which one matches the excluded company: one
\* result and _meta.excluded 1.
C12_Witness ==
  \E r \in Slots :
    /\ ContactPageDone(r)
    /\ Len(Rows(frame[r].replies[1])) = 2
    /\ Cardinality(ExcludedRows(r)) = 1
    /\ Len(OutRows(r)) = 1
    /\ Field(Field(OutText(r), "_meta"), "excluded") = Num(1)

\* The ids of a sequence of rows.
IdsOf(rows) == [i \in 1..Len(rows) |-> Get(rows[i], "id")]

\* The rows of the remote page that match no exclusion term of the
\* arguments, decided on the values as the remote system returned them.
KeptRemote(r) ==
  LET options == ExclusionsOf(frame[r].args)
      keep(item) == ~MatchesExclusion(item, options)
  IN SelectSeq(Rows(frame[r].replies[1]), keep)

\* C13: the contact tools filter before they truncate: the contacts of the
\* response are those of the remote page whose untruncated company and
\* jobtitle match no exclusion term, whatever maxPropertyLength is.
C13_FilterSeesUntruncated ==
  \A r \in Slots :
    ContactPageDone(r) => IdsOf(OutRows(r)) = IdsOf(KeptRemote(r))

\* With maxPropertyLength 1 the contact of company "aB" was excluded for
\* the term "B", which lies beyond the first character, while the contact
\* after it was returned with its company truncated.
C13_Witness ==
  \E r \in Slots :
    /\ ContactPageDone(r)
    /\ Get(frame[r].args, "maxPropertyLength") = Num(1)
    /\ Get(frame[r].args, "excludeCompanies") = Arr(<<Str(<<"B">>)>>)
    /\ IdsOf(Rows(frame[r].replies[1])) = <<Str(<<"1">>), Str(<<"2">>)>>
    /\ IdsOf(OutRows(r)) = <<Str(<<"2">>)>>
    /\ Field(Get(OutRows(r)[1], "properties"), "company") = Str(<<"a">> \o TruncationMarker)

\* ------------------------------------------- properties of page tools
\* The slot called a list or search tool of contacts or companies, the page
\* arrived and the response is a result.
PageDone(r) ==
  /\ Done(r) /\ IsDispatched(r)
  /\ frame[r].name \in {"hubspot_list_contacts", "hubspot_search_contacts",
                        "hubspot_list_companies", "hubspot_search_companies"}
  /\ Len(frame[r].replies) = 1
  /\ "result" \in DOMAIN Resp(r).body

\* a is b with some elements left out, the others in their order.
RECURSIVE IsSubsequence(_, _)
IsSubsequence(a, b) ==
  IF Len(a) = 0 THEN TRUE
  ELSE IF Len(b) = 0 THEN FALSE
  ELSE IF Head(a) = Head(b) THEN IsSubsequence(Tail(a), Tail(b))
  ELSE IsSubsequence(a, Tail(b))

\* C14: the ids of the results of a contact or company list or search are a
\* subsequence of the ids of the remote page, the whole sequence for
\* companies and when no contact is filtered out, and total and paging are
\* those of the remote page.
C14_OrderAndPagingPreserved ==
  \A r \in Slots :
    PageDone(r)
      => LET src == frame[r].replies[1]
             out == OutText(r)
         IN /\ IsSubsequence(IdsOf(Rows(out)), IdsOf(Rows(src)))
            /\ frame[r].name \in {"hubspot_list_companies", "hubspot_search_companies"}
                 => IdsOf(Rows(out)) = IdsOf(Rows(src))
            /\ ContactPageDone(r) /\ ExcludedRows(r) = {}
                 => IdsOf(Rows(out)) = IdsOf(Rows(src))
            /\ Field(out, "total") = Field(src, "total")
            /\ Field(out, "paging") = Field(src, "paging")

\* A contact page with total and paging of which the first contact was
\* filtered out: the second is returned, total and paging as they came.
C14_Witness ==
  \E r \in Slots :
    /\ ContactPageDone(r)
    /\ IdsOf(Rows(frame[r].replies[1])) = <<Str(<<"1">>), Str(<<"3">>)>>
    /\ IdsOf(OutRows(r)) = <<Str(<<"3">>)>>
    /\ Field(OutText(r), "total") = Num(9)
    /\ Field(OutText(r), "paging") = Obj([next |-> Str(<<"c">>)])

\* ------------------------------------------ properties of composite writes
\* The tools that create an object and then associate it.
CompositeWrites ==
  {"hubspot_log_email", "hubspot_create_note", "hubspot_create_task", "hubspot_create_deal"}

\* The slot runs, or has run, a composite write.
IsComposite(r) == frame[r] # NoFrame /\ frame[r].name \in CompositeWrites

\* The call is an association of the created object.
IsAssociation(req) ==
  /\ req.method = "PUT"
  /\ req.path \in {"/crm/v3/objects/{}/{}/associations/contacts/{}/{}",
                   "/crm/v3/objects/deals/{}/associations/{}/{}/{}"}

\* The call creates the primary object.
IsCreate(req) ==
  /\ req.method = "POST"
  /\ req.path \in {"/crm/v3/objects/{}", "/crm/v3/objects/deals"}

\* hubspot_create_deal ended in a result.
DealCreated(r) ==
  /\ Done(r) /\ IsComposite(r)
  /\ frame[r].name = "hubspot_create_deal"
  /\ "result" \in DOMAIN Resp(r).body

\* The association calls the arguments of hubspot_create_deal ask for, by
\* target, in the order contact, company.
DealTargets(args) ==
  (IF Truthy(Get(args, "contactId"))
   THEN <<<<"c", "o", "n", "t", "a", "c", "t", "s">>>> ELSE <<>>)
  \o (IF Truthy(Get(args, "companyId"))
      THEN <<<<"c", "o", "m", "p", "a", "n", "i", "e", "s">>>> ELSE <<>>)

\* C15: at every moment of a composite write, every call but the latest has
\* resolved successfully, the first call is the create and all later ones
\* are associations; hubspot_create_deal that ends in a result has issued
\* the create, then the contact association, then the company association
\* (each only if its id was supplied), and its result carries associations
\* with the supplied ids and null for the others.
C15_CompositeWritesSequential ==
  \A r \in Slots :
    IsComposite(r)
      => LET fs == fetches[r]
         IN /\ \A i \in 1..Len(fs) :
                 /\ i < Len(fs) => fs[i].state = "ok"
                 /\ i = 1 => IsCreate(fs[i].req)
                 /\ i > 1 => IsAssociation(fs[i].req)
            /\ DealCreated(r)
                 => LET args == frame[r].args
                        targets == DealTargets(args)
                    IN /\ Len(fs) = 1 + Len(targets)
                       /\ \A i \in 1..Len(targets) : fs[i + 1].req.parts[2] = targets[i]
                       /\ Field(OutText(r), "associations")
                            = Obj([contactId |-> OrElse(Get(args, "contactId"), Null),
                                   companyId |-> OrElse(Get(args, "companyId"), Null)])

\* hubspot_create_deal with contactId "10" and companyId "20": three calls,
\* create, contact association, company association, and both ids in the
\* result.
C15_Witness ==
  \E r \in Slots :
    /\ DealCreated(r)
    /\ Len(fetches[r]) = 3
    /\ IsCreate(fetches[r][1].req)
    /\ fetches[r][2].req.parts[2] = <<"c", "o", "n", "t", "a", "c", "t", "s">>
    /\ fetches[r][3].req.parts[2] = <<"c", "o", "m", "p", "a", "n", "i", "e", "s">>
    /\ Field(OutText(r), "associations")
         = Obj([contactId |-> Str(<<"1", "0">>), companyId |-> Str(<<"2", "0">>)])

\* Call i of the slot's composite write is an association that failed.
AssociationFailed(r, i) ==
  /\ i \in 2..Len(fetches[r])
  /\ IsAssociation(fetches[r][i].req)
  /\ fetches[r][i].state = "failed"

\* C16: when an association call of a composite write fails after the
\* create succeeded, the tool call ends in a JSON-RPC error carrying that
\* failure and in no result, the failed call is the last call issued, and
\* no delete was issued.
C16_AssociationFailureFailsCall ==
  \A r \in Slots :
    (Done(r) /\ IsComposite(r))
      => \A i \in 1..Len(fetches[r]) :
           AssociationFailed(r, i)
             => /\ fetches[r][1].state = "ok"
                /\ i = Len(fetches[r])
                /\ Len(responses[r]) = 1
                /\ IsRpcError(Resp(r), -32603)
                /\ Resp(r).body.error.message = fetches[r][i].error
                /\ "result" \notin DOMAIN Resp(r).body
                /\ \A k \in 1..Len(fetches[r]) : fetches[r][k].req.method # "DELETE"

\* hubspot_create_deal whose contact association failed after the deal was
\* created: an error, and the company association never issued.
C16_Witness ==
  \E r \in Slots :
    /\ Done(r) /\ IsComposite(r)
    /\ frame[r].name = "hubspot_create_deal"
    /\ Truthy(Get(frame[r].args, "companyId"))
    /\ Len(fetches[r]) = 2
    /\ fetches[r][1].state = "ok"
    /\ AssociationFailed(r, 2)
    /\ IsRpcError(Resp(r), -32603)

\* ------------------------------------------------ properties of updates
\* The fields of an update tool that carry a property to change.
OptionalFields(name) ==
  IF name = "hubspot_update_task"
  THEN {"status", "subject", "body", "dueDate", "ownerId", "priority"}
  ELSE {"dealname", "amount", "closedate", "dealstage", "ownerId"}

\* The slot called hubspot_update_task or hubspot_update_deal with none of
\* the optional fields among its arguments, and the call ended.
EmptyUpdate(r) ==
  /\ Done(r) /\ IsDispatched(r)
  /\ frame[r].name \in {"hubspot_update_task", "hubspot_update_deal"}
  /\ DOMAIN frame[r].args \cap OptionalFields(frame[r].name) = {}

\* C17: hubspot_update_task and hubspot_update_deal called with none of
\* their optional fields end in the JSON-RPC error 'At least one property to
\* update must be provided' and issue no network call, with and without the
\* credential.
C17_EmptyUpdateRejected ==
  \A r \in Slots :
    EmptyUpdate(r)
      => /\ IsRpcError(Resp(r), -32603)
         /\ Resp(r).body.error.message
              = Msg("At least one property to update must be provided", <<>>)
         /\ NetworkCalls(r) = 0

\* With the credential configured, hubspot_update_task with only a taskId
\* was rejected without a network call.
C17_Witness ==
  \E r \in Slots :
    /\ EmptyUpdate(r)
    /\ token
    /\ frame[r].name = "hubspot_update_task"
    /\ "taskId" \in DOMAIN frame[r].args
    /\ IsRpcError(Resp(r), -32603)
    /\ NetworkCalls(r) = 0

\* ------------------------------------- properties of hubspot_get_engagements
\* The slot called hubspot_get_engagements and the call ended.
EngagementsDone(r) ==
  /\ Done(r) /\ IsDispatched(r)
  /\ frame[r].name = "hubspot_get_engagements"

\* A call of the subtask failed: its association lookup or its batch read.
SubtaskFailed(sub) == \E i \in 1..Len(sub.calls) : sub.calls[i].state = "failed"

\* The list the response carries for a type (undefined when it has none).
EngagementList(r, type) == Field(Field(OutText(r), "engagements"), type)

\* The engagements the subtask's own batch read returned, as id and
\* properties.
OwnBatch(sub) ==
  LET rows == Rows(sub.calls[2].json)
  IN Arr([i \in 1..Len(rows) |->
            Obj([id |-> Get(rows[i], "id"), properties |-> Get(rows[i], "properties")])])

\* C18: hubspot_get_engagements answers with a result whatever call of
\* whatever type failed; the list of a type whose lookup or batch read failed
\* is empty, and the list of every other type holds exactly what that type's
\* own batch read returned (nothing when its lookup found no association).
C18_FailureIsolatedPerType ==
  \A r \in Slots :
    EngagementsDone(r)
      => /\ "result" \in DOMAIN Resp(r).body
         /\ "error" \notin DOMAIN Resp(r).body
         /\ \A j \in 1..Len(frame[r].subtasks) :
              LET sub == frame[r].subtasks[j]
                  list == EngagementList(r, sub.type)
              IN /\ SubtaskFailed(sub) => list = Arr(<<>>)
                 /\ ~SubtaskFailed(sub) /\ Len(sub.calls) = 2 => list = OwnBatch(sub)
                 /\ ~SubtaskFailed(sub) /\ Len(sub.calls) < 2 => list = Arr(<<>>)

\* The association lookup of calls failed and the batch read of emails
\* succeeded: calls is empty and emails holds the emails read.
C18_Witness ==
  \E r \in Slots :
    /\ EngagementsDone(r)
    /\ Len(frame[r].subtasks) = 2
    /\ frame[r].subtasks[1].type = "calls"
    /\ Len(frame[r].subtasks[1].calls) = 1
    /\ SubtaskFailed(frame[r].subtasks[1])
    /\ frame[r].subtasks[2].type = "emails"
    /\ Len(frame[r].subtasks[2].calls) = 2
    /\ ~SubtaskFailed(frame[r].subtasks[2])
    /\ EngagementList(r, "calls") = Arr(<<>>)
    /\ EngagementList(r, "emails")
         = Arr(<<Obj([id |-> Str(<<"8">>),
                      properties |-> Obj([hs_email_subject |-> Str(<<"a">>)])])>>)

\* A remote call of one of the slot's subtasks is outstanding.
SubtaskOutstanding(r) ==
  \E j \in 1..Len(frame[r].subtasks) :
    \/ frame[r].subtasks[j].at # "done"
    \/ \E i \in 1..Len(frame[r].subtasks[j].calls) :
         frame[r].subtasks[j].calls[i].state = "pending"

\* The types the response lists in _meta.typesRequested.
TypesRequested(r) ==
  LET a == Field(Field(OutText(r), "_meta"), "typesRequested")
  IN {a.v[i].v : i \in 1..Len(a.v)}

\* C19: hubspot_get_engagements sends no response while a subtask has not
\* finished or a remote call of a subtask is outstanding, and the engagements
\* map of its result has a list for every type of _meta.typesRequested.
C19_JoinBeforeResult ==
  \A r \in Slots :
    (frame[r] # NoFrame /\ frame[r].name = "hubspot_get_engagements")
      => /\ SubtaskOutstanding(r) => Len(responses[r]) = 0 /\ pc[r] = "fanout"
         /\ Len(responses[r]) > 0
              => /\ "result" \in DOMAIN Resp(r).body
                 /\ \A j \in 1..Len(frame[r].subtasks) :
                      frame[r].subtasks[j].type \in TypesRequested(r)
                 /\ \A type \in TypesRequested(r) : IsArray(EngagementList(r, type))

\* With the credential and no types argument all five subtasks ran, one of
\* them to a failure and one to a batch read, before the result was sent
\* with a list for each of the five types.
C19_Witness ==
  \E r \in Slots :
    /\ EngagementsDone(r)
    /\ token
    /\ Len(frame[r].subtasks) = 5
    /\ ~SubtaskOutstanding(r)
    /\ \E j \in 1..5 : SubtaskFailed(frame[r].subtasks[j])
    /\ \E j \in 1..5 : Len(frame[r].subtasks[j].calls) = 2
    /\ TypesRequested(r) = {"notes", "emails", "calls", "meetings", "tasks"}
    /\ \A type \in TypesRequested(r) : IsArray(EngagementList(r, type))

\* ------------------------------------------------ properties of the limit
\* The limit a remote call carries, in its query or its body (undefined
\* when it carries none).
LimitSent(req) == Field(req.payload, "limit")

\* The value is a whole number from 1 to max, as a number or in decimal.
WithinLimits(v, max) == \E n \in 1..max : v = Num(n) \/ v = Str(Digits(n))

\* The value is the number n, as a number or in decimal.
IsLimit(v, n) == v = Num(n) \/ v = Str(Digits(n))

\* C20: whatever the limit argument is, the limit sent to the remote system
\* lies in [1, 100] for the list and search tools and in [1, 500] for
\* hubspot_list_owners, and it is 20 (100 for owners) when the argument is
\* absent.
C20_LimitClamped ==
  \A r \in Slots :
    \A i \in 1..Len(fetches[r]) :
      LET req == fetches[r][i].req
          owners == frame[r].name = "hubspot_list_owners"
      IN LimitSent(req) # Undefined
           => /\ WithinLimits(LimitSent(req), IF owners THEN 500 ELSE 100)
              /\ "limit" \notin DOMAIN frame[r].args
                   => IsLimit(LimitSent(req),
                              IF owners THEN 100 ELSE DEFAULT_MAX_RESULTS)

\* --------------------------------------------- properties of the searches
\* The convenience filter arguments of hubspot_search_tasks and
\* hubspot_search_deals.
ConvenienceArgs(name) ==
  IF name = "hubspot_search_tasks"
  THEN {"ownerId", "status", "dueBefore", "dueAfter"}
  ELSE {"ownerId", "dealstage", "pipeline", "closeAfter", "closeBefore", "minAmount"}

\* The filter a convenience argument stands for.
ConvenienceFilter(k, v) ==
  LET on == CASE k = "ownerId" -> <<"hubspot_owner_id", "EQ">>
              [] k = "status" -> <<"hs_task_status", "EQ">>
              [] k = "dueBefore" -> <<"hs_timestamp", "LT">>
              [] k = "dueAfter" -> <<"hs_timestamp", "GT">>
              [] k = "dealstage" -> <<"dealstage", "EQ">>
              [] k = "pipeline" -> <<"pipeline", "EQ">>
              [] k = "closeAfter" -> <<"closedate", "GTE">>
              [] k = "closeBefore" -> <<"closedate", "LTE">>
              [] OTHER -> <<"amount", "GTE">>
  IN Obj([propertyName |-> on[1], operator |-> on[2], value |-> Str(StringOf(v))])

\* The filterGroups of a request body (undefined when it has none).
GroupsSent(req) == Field(req.payload, "filterGroups")

\* The body has no filterGroups when S is empty, and otherwise one group
\* holding one filter for each argument of S and no other.
OneGroupFor(req, args, S) ==
  IF S = {}
  THEN GroupsSent(req) = Undefined
  ELSE /\ IsArray(GroupsSent(req))
       /\ Len(GroupsSent(req).v) = 1
       /\ LET filters == Field(GroupsSent(req).v[1], "filters")
          IN /\ IsArray(filters)
             /\ Len(filters.v) = Cardinality(S)
             /\ \A k \in S : \E i \in 1..Len(filters.v) :
                               filters.v[i] = ConvenienceFilter(k, args[k])

\* The slot's tool is a task or deal search that issued its call.
ConvenienceSearch(r) ==
  /\ frame[r] # NoFrame
  /\ frame[r].name \in {"hubspot_search_tasks", "hubspot_search_deals"}
  /\ Len(fetches[r]) > 0

\* The slot's tool is a contact or company search that issued its call.
PlainSearch(r) ==
  /\ frame[r] # NoFrame
  /\ frame[r].name \in {"hubspot_search_contacts", "hubspot_search_companies"}
  /\ Len(fetches[r]) > 0

\* The caller's filterGroups reach the body of a contact or company search
\* as they are, and the body has none when the caller gave none.
GroupsPassedThrough(r) ==
  GroupsSent(fetches[r][1].req)
    = (IF Truthy(Get(frame[r].args, "filterGroups"))
       THEN frame[r].args.filterGroups ELSE Undefined)

\* C21 as stated: the body of a task or deal search has no filterGroups
\* when no convenience argument was supplied, and otherwise one group with
\* one filter per supplied convenience argument; a contact or company search
\* passes the caller's filterGroups through and injects none.
C21_OneFilterPerSuppliedArgument ==
  \A r \in Slots :
    /\ ConvenienceSearch(r)
         => OneGroupFor(fetches[r][1].req, frame[r].args,
                        DOMAIN frame[r].args \cap ConvenienceArgs(frame[r].name))
    /\ PlainSearch(r) => GroupsPassedThrough(r)

\* C21, amended: one filter per convenience argument whose value is truthy;
\* an argument given as the empty string (or 0) counts as not supplied.
C21_OneFilterPerTruthyArgument ==
  \A r \in Slots :
    /\ ConvenienceSearch(r)
         => OneGroupFor(fetches[r][1].req, frame[r].args,
                        TruthyKeys(frame[r].args, ConvenienceArgs(frame[r].name)))
    /\ PlainSearch(r) => GroupsPassedThrough(r)

\* hubspot_search_deals with ownerId and minAmount sent one group holding
\* the two filters.
C21_Witness ==
  \E r \in Slots :
    /\ ConvenienceSearch(r)
    /\ frame[r].name = "hubspot_search_deals"
    /\ TruthyKeys(frame[r].args, ConvenienceArgs(frame[r].name)) = {"ownerId", "minAmount"}
    /\ Len(GroupsSent(fetches[r][1].req).v) = 1
    /\ Len(Field(GroupsSent(fetches[r][1].req).v[1], "filters").v) = 2

\* --------------------------------------------- properties of single calls
\* The read tools other than hubspot_get_engagements and the writes that
\* touch one object.
SingleCallTools == ToolNames \ ({"hubspot_get_engagements"} \cup CompositeWrites)

\* The slot runs, or has run, one of these tools with arguments that pass
\* the tool's validation.
SingleCallValid(r) ==
  /\ frame[r] # NoFrame
  /\ frame[r].name \in SingleCallTools
  /\ handleToolStep(frame[r].name, frame[r].args, <<>>).kind = "fetch"

\* C22: a read tool other than hubspot_get_engagements and a single-object
\* write tool, called with arguments that pass validation, never has more
\* than one remote call, has issued exactly one when the invocation ended
\* (none reaches the network without the credential), and a call that
\* failed is not issued again: it is the last call and the invocation ended
\* in an error.
C22_OneCallNoRetry ==
  \A r \in Slots :
    SingleCallValid(r)
      => /\ NetworkCalls(r) <= 1
         /\ Done(r) => NetworkCalls(r) = (IF token THEN 1 ELSE 0)
         /\ \A i \in 1..Len(fetches[r]) :
              fetches[r][i].state = "failed"
                => /\ i = Len(fetches[r])
                   /\ Done(r)
                   /\ IsRpcError(Resp(r), -32603)

\* hubspot_update_contact whose only call failed: the invocation ended in
\* an error with that one call in its log.
C22_Witness ==
  \E r \in Slots :
    /\ SingleCallValid(r)
    /\ frame[r].name = "hubspot_update_contact"
    /\ Done(r)
    /\ NetworkCalls(r) = 1
    /\ fetches[r][1].state = "failed"
    /\ IsRpcError(Resp(r), -32603)

\* ------------------------------------------------ properties of deletes
\* A delete tool ended in a result.
Deleted(r) ==
  /\ Done(r) /\ IsDispatched(r)
  /\ frame[r].name \in {"hubspot_delete_contact", "hubspot_delete_company",
                        "hubspot_delete_deal"}
  /\ "result" \in DOMAIN Resp(r).body

\* C23: a delete tool that succeeds returns {success: true, deleted: id}
\* with the id it was called with, having issued its DELETE call and no
\* call that fetches the object.
C23_DeleteReturnsDeletedId ==
  \A r \in Slots :
    Deleted(r)
      => /\ OutText(r) = Obj([success |-> Bool(TRUE),
                              deleted |-> Get(frame[r].args, "id")])
         /\ Len(fetches[r]) = 1
         /\ fetches[r][1].req.method = "DELETE"

\* ------------------------------------------- properties of the protocol
\* The slot handled a POST of this JSON-RPC method and answered.
Answered(r, method) ==
  /\ Done(r)
  /\ request[r].method = "POST"
  /\ MethodIs(request[r].body, method)

\* C24: whatever the credential, the params and the requests handled
\* before, initialize answers with the same result: the fixed protocol
\* version, capabilities {tools: {}} and the server's name and version; it
\* issues no remote call.
C24_InitializeIsConstant ==
  \A r \in Slots :
    Answered(r, "initialize")
      => /\ Len(responses[r]) = 1
         /\ Resp(r).status = 200
         /\ "result" \in DOMAIN Resp(r).body
         /\ Resp(r).body.result
              = [protocolVersion |-> MCP_VERSION,
                 capabilities |-> [tools |-> EmptyMap],
                 serverInfo |-> [name |-> SERVER_NAME, version |-> SERVER_VERSION]]
         /\ NetworkCalls(r) = 0

\* initialize answered without the credential and with params in the
\* request.
C24_Witness ==
  \E r \in Slots :
    /\ Answered(r, "initialize")
    /\ ~token
    /\ Get(request[r].body, "params") = Obj(EmptyMap)
    /\ "result" \in DOMAIN Resp(r).body
    /\ Resp(r).body.result.protocolVersion = MCP_VERSION

\* C25: tools/list answers, whatever was handled before and whatever the
\* credential, with the whole static catalog, whose names are unique, and
\* issues no remote call.
C25_CatalogIsStatic ==
  \A r \in Slots :
    Answered(r, "tools/list")
      => /\ Len(responses[r]) = 1
         /\ Resp(r).status = 200
         /\ "result" \in DOMAIN Resp(r).body
         /\ LET tools == Resp(r).body.result.tools
            IN /\ tools = TOOLS
               /\ \A i, j \in 1..Len(tools) : tools[i] = tools[j] => i = j
         /\ NetworkCalls(r) = 0

\* tools/list answered with the catalog of 29 tools without the credential.
C25_Witness ==
  \E r \in Slots :
    /\ Answered(r, "tools/list")
    /\ ~token
    /\ "result" \in DOMAIN Resp(r).body
    /\ Len(Resp(r).body.result.tools) = 29
    /\ Resp(r).body.result.tools[1] = "hubspot_list_contacts"

\* ------------------------------------------------ concurrent invocations
\* Two invocations of the handler in one process, their steps interleaved
\* at the awaits.
Pair == {1, 2}

\* The requests the two invocations carry: hubspot_get_engagements for two
\* types and hubspot_create_deal with both associations.
PairBodies ==
  {Defined([method |-> Atom("tools/call"), params |-> pa, id |-> id]) :
     pa \in {Obj([name |-> Atom("hubspot_get_engagements"),
                  arguments |-> Obj([contactId |-> Str(<<"9">>),
                                     types |-> Arr(<<Atom("calls"), Atom("emails")>>)])]),
             Obj([name |-> Atom("hubspot_create_deal"),
                  arguments |-> Obj([dealname |-> Str(<<"Q">>),
                                     contactId |-> Str(<<"1", "0">>),
                                     companyId |-> Str(<<"2", "0">>)])])},
     id \in Ids}

InitPair ==
  /\ token \in BOOLEAN
  /\ request = [r \in Pair |-> NoRequest]
  /\ pc = [r \in Pair |-> "idle"]
  /\ frame = [r \in Pair |-> NoFrame]
  /\ fetches = [r \in Pair |-> <<>>]
  /\ responses = [r \in Pair |-> <<>>]
  /\ call = NoCall

PairToolsCall(r) == ToolsCall(r) /\ request'[r].body \in PairBodies

PairEngagementsCall(r) == EngagementsCall(r) /\ request'[r].body \in PairBodies

NextPair ==
  \E r \in Pair :
    \/ PairToolsCall(r)
    \/ FetchSettles(r)
    \/ PairEngagementsCall(r)
    \/ \E j \in 1..Len(allTypes) : SubtaskSettles(r, j)
    \/ FanIn(r)
    \/ Finish(r)

SpecPair == InitPair /\ [][NextPair]_vars

\* The engagements map an invocation's own subtasks produce from the
\* answers their own calls got.
OwnEngagements(r) ==
  LET subs == frame[r].subtasks
      of(type) == subs[CHOOSE j \in 1..Len(subs) : subs[j].type = type]
  IN [type \in {subs[j].type : j \in 1..Len(subs)} |->
        IF SubtaskFailed(of(type)) \/ Len(of(type).calls) < 2
        THEN Arr(<<>>)
        ELSE OwnBatch(of(type))]

\* The response an invocation gives when handled alone: a function of its
\* own request, the credential and the answers its own remote calls got.
AloneResponse(r) ==
  LET fr == frame[r]
      body == request[r].body
      n == Len(fetches[r])
      step == handleToolStep(fr.name, fr.args, fr.replies)
      result(value) ==
        [status |-> 200, body |-> RpcResult(toolContent(value), Get(body, "id"))]
  IN IF fr.name = "hubspot_get_engagements"
     THEN result(engagementsResult(fr.args, OwnEngagements(r)))
     ELSE IF n > 0 /\ fetches[r][n].state = "failed"
     THEN caught(fetches[r][n].error, body)
     ELSE IF step.kind = "throw" THEN caught(step.message, body)
     ELSE IF step.kind = "return" THEN result(step.value)
     ELSE caught(NotConfigured, body)

\* C26: with two invocations interleaved at their remote calls, each sends
\* the one response it would send alone for its request and the answers its
\* own calls got, and the engagements map of an invocation in flight holds
\* only what its own finished subtasks stored.
C26_InvocationsIndependent ==
  \A r \in DOMAIN pc :
    /\ Done(r) /\ IsDispatched(r) => responses[r] = <<AloneResponse(r)>>
    /\ (frame[r] # NoFrame /\ frame[r].name = "hubspot_get_engagements" /\ token)
         => \A type \in DOMAIN frame[r].engagements :
              \E j \in 1..Len(frame[r].subtasks) :
                /\ frame[r].subtasks[j].type = type
                /\ frame[r].subtasks[j].at = "done"
                /\ frame[r].engagements[type] = OwnEngagements(r)[type]

\* Both invocations run hubspot_get_engagements: the first has answered
\* with the calls it read while the second, still in its fan-out, has stored
\* an empty list for calls after its lookup failed.
C26_Witness ==
  /\ DOMAIN pc = Pair
  /\ pc[1] = "done" /\ pc[2] = "fanout"
  /\ frame[1].name = "hubspot_get_engagements"
  /\ frame[2].name = "hubspot_get_engagements"
  /\ responses[1] = <<AloneResponse(1)>>
  /\ Len(frame[1].subtasks[1].calls) = 2
  /\ ~SubtaskFailed(frame[1].subtasks[1])
  /\ Get(frame[1].engagements, "calls") = OwnBatch(frame[1].subtasks[1])
  /\ SubtaskFailed(frame[2].subtasks[1])
  /\ Get(frame[2].engagements, "calls") = Arr(<<>>)
  /\ frame[2].subtasks[2].at # "done"

\* ------------------------------------------- properties of the catalog
\* The tools/call of the slot ended in the error of the switch's default.
UnknownToolError(r) ==
  /\ IsRpcError(Resp(r), -32603)
  /\ Resp(r).body.error.message.template = "Unknown tool: {}"

\* C27: every tool of the README's Available Tools table is in the catalog
\* tools/list returns, and a tools/call of it does not end in 'Unknown tool'.
C27_ReadmeToolsAvailable ==
  \A r \in Slots :
    /\ (Answered(r, "tools/list") /\ "result" \in DOMAIN Resp(r).body)
         => \A name \in README_TOOLS :
              \E i \in 1..Len(Resp(r).body.result.tools) :
                Resp(r).body.result.tools[i] = name
    /\ (Done(r) /\ IsDispatched(r) /\ nameOf(request[r].body.params) \in README_TOOLS)
         => ~UnknownToolError(r)

\* ----------------------------------- properties of the engagement calls
\* The call is the association lookup of this type.
IsLookup(req, type) ==
  /\ req.method = "GET"
  /\ req.path = "/crm/v4/objects/contacts/{}/associations/{}"
  /\ req.parts[2] = type

\* The call is the batch read of this type.
IsBatchRead(req, type) ==
  /\ req.method = "POST"
  /\ req.path = "/crm/v3/objects/{}/batch/read"
  /\ req.parts[1] = type

\* The ids an association lookup that succeeded returned, in order.
LookedUp(c) ==
  LET results == Field(c.json, "results")
  IN [i \in 1..Len(results.v) |-> Field(results.v[i], "toObjectId")]

\* The ids a batch read asks for, in order.
BatchIds(req) ==
  LET inputs == Field(req.payload, "inputs")
  IN [i \in 1..Len(inputs.v) |-> Field(inputs.v[i], "id")]

\* The limit argument when it is a number of at least 1 and at most 100,
\* 20 when it is absent, and no bound (0) otherwise.
IdsBound(args) ==
  LET l == Get(args, "limit")
  IN IF l = Undefined THEN DEFAULT_MAX_RESULTS
     ELSE IF l.t = "number" /\ l.v >= 1 /\ l.v <= 100 THEN l.v
     ELSE 0

\* The slot runs, or has run, hubspot_get_engagements.
IsEngagements(r) == frame[r] # NoFrame /\ frame[r].name = "hubspot_get_engagements"

\* The subtasks are those of the requested types that are known, and each
\* has the lookup of its type as its first call, none without the
\* credential.
LookupsIssued(r) ==
  /\ \A j \in 1..Len(frame[r].subtasks) :
       LET sub == frame[r].subtasks[j]
       IN /\ \E i \in 1..Len(allTypes) : allTypes[i] = sub.type
          /\ Len(sub.calls) = (IF token THEN Len(sub.calls) ELSE 0)
          /\ token => /\ Len(sub.calls) \in {1, 2}
                      /\ IsLookup(sub.calls[1].req, sub.type)
  /\ IsArray(Get(frame[r].args, "types"))
       => Len(frame[r].subtasks)
            = Cardinality({i \in 1..Len(frame[r].args.types.v) :
                             \E k \in 1..Len(allTypes) :
                               allTypes[k] = frame[r].args.types.v[i].v})

RemoteCallsSettle ==
  \A r \in Slots :
    /\ WF_vars(FetchSettles(r))
    /\ \A j \in 1..Len(allTypes) : WF_vars(SubtaskSettles(r, j))
    /\ WF_vars(FanIn(r))

\* A tools/call request that carries the id 7.
NumberedToolsCall(r) == ToolsCall(r) /\ Get(request'[r].body, "id") = Num(7)

NumberedEngagementsCall(r) ==
  EngagementsCall(r) /\ Get(request'[r].body, "id") = Num(7)

\* The steps of the handler alone, without the direct applications of the
\* pure functions; the tool calls carry the id 7.
NextHandler ==
  \E r \in Slots :
    \/ Options(r)
    \/ MethodNotAllowed(r)
    \/ BodyMissing(r)
    \/ Initialize(r)
    \/ ToolsList(r)
    \/ MethodNotFound(r)
    \/ ToolsCallNoParams(r)
    \/ NumberedToolsCall(r)
    \/ FetchSettles(r)
    \/ NumberedEngagementsCall(r)
    \/ \E j \in 1..Len(allTypes) : SubtaskSettles(r, j)
    \/ FanIn(r)
    \/ Finish(r)

SpecSettling == Init /\ [][NextHandler]_vars /\ RemoteCallsSettle

\* The slot is inside the handler, awaiting remote calls.
Awaiting(r) == pc[r] \in {"tool", "fanout"}

\* C29: a request being handled has no response yet, a request handled has
\* exactly one, on every path through the handler; and when every remote
\* call settles, a request that awaits remote calls is eventually answered.
C29_ExactlyOneResponse ==
  /\ [](\A r \in Slots :
          /\ Len(responses[r]) <= 1
          /\ Done(r) <=> Len(responses[r]) = 1
          /\ Done(r) => request[r] # NoRequest
          /\ Awaiting(r) => request[r] # NoRequest /\ responses[r] = <<>>)
  /\ \A r \in Slots : Awaiting(r) ~> (Done(r) /\ Len(responses[r]) = 1)

\* A create_deal invocation answered by the catch block after its second
\* association call failed: three remote calls, one response.
C29_Witness ==
  \E r \in Slots :
    /\ Done(r)
    /\ frame[r] # NoFrame
    /\ frame[r].name = "hubspot_create_deal"
    /\ Len(fetches[r]) = 3
    /\ fetches[r][3].state = "failed"
    /\ Len(responses[r]) = 1
    /\ IsRpcError(Resp(r), -32603)

\* ------------------------------------------- a type requested more than once
\* hubspot_get_engagements asked for a type twice: typesToFetch keeps both
\* entries, so two subtasks of the same type run.
RepeatedBodies ==
  {Defined([method |-> Atom("tools/call"), params |-> pa, id |-> id]) :
     pa \in {Obj([name |-> Atom("hubspot_get_engagements"),
                  arguments |-> Obj([contactId |-> Str(<<"9">>), types |-> types])]) :
               types \in {Arr(<<Atom("calls"), Atom("calls")>>),
                          Arr(<<Atom("calls"), Atom("emails"), Atom("calls")>>)}},
     id \in Ids}

RepeatedEngagementsCall(r) == EngagementsCallOf(r, RepeatedBodies)

NextRepeated ==
  \E r \in Slots :
    \/ RepeatedEngagementsCall(r)
    \/ \E j \in 1..Len(allTypes) : SubtaskSettles(r, j)
    \/ FanIn(r)
    \/ Finish(r)

SpecRepeated == Init /\ [][NextRepeated]_vars

\* The list the subtask assigned to its key when it ended.
Written(sub) ==
  IF ~SubtaskFailed(sub) /\ Len(sub.calls) = 2 THEN OwnBatch(sub) ELSE Arr(<<>>)

\* C30: no two subtasks of an invocation write the same key of the
\* engagements map, and the map returned holds under every subtask's key
\* what that subtask wrote, whatever the order the subtasks ended in.
C30_SubtasksWriteDistinctKeys ==
  \A r \in Slots :
    EngagementsDone(r)
      => /\ \A j, k \in 1..Len(frame[r].subtasks) :
              j # k => frame[r].subtasks[j].type # frame[r].subtasks[k].type
         /\ \A j \in 1..Len(frame[r].subtasks) :
              EngagementList(r, frame[r].subtasks[j].type) = Written(frame[r].subtasks[j])

\* The returned list of a type is what one of its subtasks wrote, while
\* another subtask of the same type wrote something else: the map depends on
\* which of the two ended last.
C30_OrderDecides ==
  \E r \in Slots :
    /\ EngagementsDone(r)
    /\ \E j, k \in 1..Len(frame[r].subtasks) :
         /\ j # k
         /\ frame[r].subtasks[j].type = frame[r].subtasks[k].type
         /\ Written(frame[r].subtasks[j]) # Written(frame[r].subtasks[k])
         /\ EngagementList(r, frame[r].subtasks[j].type) = Written(frame[r].subtasks[j])

====
